---- MODULE Spec2Model ----
(***************************************************************************)
(* Exchange EWS connector: sync-job coordination through the DynamoDB      *)
(* lease table (modules/sync_job_coordinator.py, modules/qbusiness_client  *)
(* .py, qbusiness_ews_sync.py) and the batch submission and tracking path  *)
(* (modules/email_processor.py, modules/dynamodb_client.py).               *)
(***************************************************************************)
EXTENDS Integers, Sequences, FiniteSets, TLC

(***************************************************************************)
(* Bounds of the model.                                                    *)
(***************************************************************************)
NumWorkers == 2
TickSeconds == 300
MaxTime == 900
MaxFaults == 2
MaxItems == 3
MaxFolders == 2
MaxTrackerFaults == 2

(***************************************************************************)
(* Program constants.                                                      *)
(***************************************************************************)
StaleSeconds == 600
MaxConflictRetries == 3
\* max_wait_time and wait_interval of _stop_existing_sync_jobs, seconds.
MaxWaitTime == 60
WaitInterval == 5
\* Positional parameters, self apart, of two DynamoDBClient methods.
GetProcessedEmailIdsForFolderParams == 1
DeleteEmailRecordParams == 1

None == 0
\* A last_heartbeat that datetime.fromisoformat rejects (ValueError).
Unparsable == 0 - 1
Workers == 1..NumWorkers
Items == 1..MaxItems
FolderNames == <<"Inbox", "Archive", "Sent Items", "Drafts">>
Account == "user@example.com"
\* An account assigned to another container, and an email of its mailbox.
OtherAccount == "other@example.com"
OtherItem == MaxItems + 1

(***************************************************************************)
(* Faulty variants of definitions below; substituting one for the          *)
(* definition it varies must break the property that depends on it.        *)
(***************************************************************************)
\* cleanup_stale_registrations with the threshold doubled.
IsReapableTwiceThreshold(r, t) == r.hb < t - 2 * StaleSeconds

\* cleanup_stale_registrations keeping the items whose timestamp cannot be parsed.
IsReapableParsedOnly(r, t) == r.hb # Unparsable /\ r.hb < t - StaleSeconds

\* _mark_emails_in_dynamodb looking at the email's own status only.
FinalStatusFromOwnStatus(e, failed_document_ids, qbusiness_submission_failed) ==
    IF e.status = "failed" THEN "failed" ELSE "processed"

\* _mark_emails_individually doing nothing.
MarkEmailsIndividuallySkipped(st, todo, failed_ids, submission_failed, fault) == st

\* mark_email_processed adding an item instead of updating the one with the key.
\* Faulty variant of mark_email_processed: the write replaces the table.
MarkEmailProcessedOverwrite(T, e, status) == {[email_id |-> e.email_id, folder_name |-> e.folder_name, account_email |-> e.account_email, status |-> status, attempt_count |-> 1]}

MarkEmailProcessedAppend(T, e, status) ==
    T \cup {[email_id |-> e.email_id, folder_name |-> e.folder_name,
              account_email |-> e.account_email, status |-> status,
              attempt_count |-> Cardinality({r \in T : r.email_id = e.email_id}) + 1]}

\* register_container writing the item under another job's id.
ContainerItemOtherJob(j, w, t) ==
    [kind |-> "CONTAINER", job |-> j + 1, who |-> w, hb |-> t, full |-> TRUE]

VARIABLES
    now,          \* wall clock, seconds
    autoResolve,  \* config.auto_resolve_sync_conflicts
    lease,        \* items of the "<table>-sync-jobs" table
    svcRunning,   \* executionId of the job the index service has in SYNCING, or None
    svcStarted,   \* number of sync jobs the index service has started (last executionId)
    stopsBy,      \* workers that sent stop_data_source_sync_job from stop_sync_job
    faults,       \* lease-store calls that failed so far
    reaped,       \* SYNC_JOB ids whose item cleanup_stale_registrations deleted
    pc,           \* each worker's position in run_exchange_connector
    sjid,         \* sync_job_id local of start_or_join_sync_job, then of the run
    attempt,      \* loop variable of the conflict-resolution loop
    starts,       \* start_data_source_sync_job requests each worker has sent
    cur,          \* SyncJobCoordinator.current_sync_job_id
    owner,        \* SyncJobCoordinator.is_sync_job_owner
    qbJob,        \* QBusinessClient.current_sync_job_id
    qbStarted,    \* QBusinessClient.sync_job_started
    hbThread,     \* QBusinessClient._heartbeat_thread is running
    path,         \* branch start_or_join_sync_job took: "none", "join", "start"
    sawEmpty,     \* the lease table was empty when the worker queried it
    faulted,      \* a lease-store call of this worker failed
    tracker,      \* items of the processed-emails table, key email_id
    epStarted,    \* EmailProcessor.qbusiness_client has sync_job_started and a job id
    epc,          \* EmailProcessor: "idle" or "processing" (inside process_all_accounts)
    folders,      \* folders of the account whose batch has been submitted
    batch,        \* emails_to_mark_batch and documents_batch being handed over
    last,         \* what the last _submit_document_batch call was given and did
    mailbox,      \* ids of the emails the folder of the account holds at the server
    index,        \* ids of the documents the index service holds
    spc,          \* position of the run inside process_all_accounts
    mode,         \* sync_mode of the run: "delta" or "full" ("none" between runs)
    sync,         \* what the last _find_and_cleanup_folder_orphans call was given and did
    reap,         \* each worker's cleanup_stale_registrations call: position, stale_items
    lease0,       \* the lease table before the cleanup calls
    client,       \* one QBusinessClient taken alone: its job fields, the service, its calls
    pool,         \* _process_emails_threaded: its position, the items, the documents
                  \* that can be created, the documents the index service rejects,
                  \* the tracking table before, the tasks in the order they completed
    tpc,          \* position of each _process_email_batch task of the pool
    treg,         \* locals of each task: documents left to count, value read, failed ids
    batch_lock,   \* task holding EmailProcessor._batch_lock, or None
    counter_lock, \* task holding EmailProcessor._counter_lock, or None
    emails_processed_count,
    emails_attempted_count,
    applied,      \* sum of the increments applied to emails_processed_count
    walk,         \* process_account_folders: the folder tree, the folders visited, the result
    split         \* account splitting: the configured accounts, the number of containers,
                  \* the list get_assigned_accounts returned to each container

workerVars == <<pc, sjid, attempt, starts, cur, owner, qbJob, qbStarted, hbThread,
                path, sawEmpty, faulted>>
svcVars == <<svcRunning, svcStarted, stopsBy>>
leaseVars == <<now, autoResolve, lease, faults, reaped>>
batchVars == <<tracker, epStarted, epc, folders, batch, last>>
syncVars == <<mailbox, index, spc, mode, sync>>
reapVars == <<reap, lease0>>
threadVars == <<pool, tpc, treg, batch_lock, counter_lock, emails_processed_count,
                emails_attempted_count, applied>>
unitVars == <<client, threadVars, walk, split>>
vars == <<leaseVars, svcVars, workerVars, batchVars, syncVars, reapVars, unitVars>>

(***************************************************************************)
(* The lease table.  Key: (job_type, job_id); the job_id of a CONTAINER    *)
(* item is "<sync_job_id>#<container_id>".                                 *)
(***************************************************************************)
SyncJobItem(j, w, t) ==
    [kind |-> "SYNC_JOB", job |-> j, who |-> w, hb |-> t, full |-> TRUE]

ContainerItem(j, w, t) ==
    [kind |-> "CONTAINER", job |-> j, who |-> w, hb |-> t, full |-> TRUE]

ItemKey(r) ==
    IF r.kind = "SYNC_JOB" THEN <<r.kind, r.job, None>> ELSE <<r.kind, r.job, r.who>>

\* put_item: replaces the item with the same key.
PutItem(L, r) == {x \in L : ItemKey(x) # ItemKey(r)} \cup {r}

\* delete_item by key.
DeleteItem(L, k) == {x \in L : ItemKey(x) # k}

\* (current_time - last_heartbeat).total_seconds() < 600; a timestamp that cannot
\* be parsed makes the item stale.
IsLive(r, t) == r.hb # Unparsable /\ t - r.hb < StaleSeconds

\* last_heartbeat < current_time - timedelta(minutes=10), or a timestamp that
\* cannot be parsed.
IsReapable(r, t) == r.hb = Unparsable \/ r.hb < t - StaleSeconds

SyncJobs(L) == {r \in L : r.kind = "SYNC_JOB"}

Containers(L, j) == {r \in L : r.kind = "CONTAINER" /\ r.job = j}

\* get_active_sync_job: the query returns the SYNC_JOB items in key order;
\* the first live one is returned and the stale ones met before it are removed.
ActiveSyncJob(L, t) ==
    LET live == {r.job : r \in {x \in SyncJobs(L) : IsLive(x, t)}}
    IN  IF live = {} THEN None ELSE CHOOSE j \in live : \A k \in live : j <= k

StaleSyncJobsRemoved(L, t) ==
    LET found == ActiveSyncJob(L, t)
    IN  {r \in SyncJobs(L) : ~IsLive(r, t) /\ (found = None \/ r.job < found)}

\* get_active_containers: live CONTAINER items of the job; stale ones are removed.
ActiveContainers(L, j, t) == {r \in Containers(L, j) : IsLive(r, t)}

StaleContainersRemoved(L, j, t) == {r \in Containers(L, j) : ~IsLive(r, t)}

\* cleanup_stale_registrations: scan, then delete every item older than the threshold.
CleanupStale(L, t) == {r \in L : ~IsReapable(r, t)}

\* update_item of update_heartbeat: SET last_heartbeat on the item with that key,
\* creating the item when it does not exist.
HeartbeatItem(L, j, w, t) ==
    IF \E r \in L : ItemKey(r) = <<"CONTAINER", j, w>>
    THEN {IF ItemKey(r) = <<"CONTAINER", j, w>> THEN [r EXCEPT !.hb = t] ELSE r : r \in L}
    ELSE L \cup {[kind |-> "CONTAINER", job |-> j, who |-> w, hb |-> t, full |-> FALSE]}

(***************************************************************************)
(* Outcomes of a lease-store call: "ok", "error" (botocore ClientError) or *)
(* "raise" (any other exception, e.g. the endpoint cannot be reached).     *)
(***************************************************************************)
Outcomes(kinds) == IF faults < MaxFaults THEN {"ok"} \cup kinds ELSE {"ok"}

Fault(w, f) ==
    /\ faults' = faults + (IF f = "ok" THEN 0 ELSE 1)
    /\ faulted' = [faulted EXCEPT ![w] = @ \/ f # "ok"]

NoTrackerFault == [kind |-> "none", at |-> None, times |-> 0]

\* documents_batch = [], emails_to_mark_batch = []
NoBatch == [ids |-> {}, docs |-> {}]

\* No _submit_document_batch call has been made for the batch being formed.
NoCall ==
    [ids |-> {}, docs |-> {}, outcome |-> "none", failed |-> {}, fault |-> "none",
     ret |-> TRUE,
     tries |-> [i \in Items |-> 0], stored |-> {}, raised |-> FALSE,
     individually |-> {}]

\* No _find_and_cleanup_folder_orphans call has been made.
NoReconcile ==
    [called |-> FALSE, via |-> "none", sync_mode |-> "none", tracked |-> {},
     live |-> {}, enumerated |-> TRUE, raised |-> FALSE, started |-> FALSE,
     outcome |-> "none", failed |-> {}, indexDeletes |-> {}, trackerDeletes |-> {}, indexBefore |-> {},
     trackerBefore |-> {}, ret |-> 0]

\* No cleanup_stale_registrations call is under way.
\* No account is being processed.
NoWalk == [state |-> "idle", sync_mode |-> "none", parent |-> <<>>, visited |-> <<>>,
           failed |-> None, cause |-> "none"]

\* No configuration is loaded and get_assigned_accounts was not called.
NoSplit == [loaded |-> FALSE, all_accounts |-> <<>>, total_containers |-> 1,
            called |-> {}, assigned |-> <<>>]

\* An EmailProcessor after __init__: counters 0, locks free, no pool.
InitThreads ==
    /\ pool = [state |-> "idle", items |-> {}, made |-> {}, rejected |-> {},
               before |-> {}, order |-> <<>>]
    /\ tpc = [c \in Items |-> "none"]
    /\ treg = [c \in Items |-> [left |-> 0, seen |-> 0, failed |-> {}]]
    /\ batch_lock = None
    /\ counter_lock = None
    /\ emails_processed_count = 0
    /\ emails_attempted_count = 0
    /\ applied = 0

\* A QBusinessClient after __init__, an index service that runs no job, no call made.
NoClient ==
    [job |-> None, started |-> FALSE, running |-> None, issued |-> 0,
     stops |-> <<>>, probe |-> [op |-> "none", outcome |-> "none", ret |-> "none"]]

NoCleanup == [pc |-> "idle", stale_items |-> {}, asked |-> {}]

Init ==
    /\ now = 0
    /\ autoResolve \in BOOLEAN
    /\ lease = {}
    /\ svcRunning = None
    /\ svcStarted = 0
    /\ stopsBy = {}
    /\ faults = 0
    /\ reaped = {}
    /\ pc = [w \in Workers |-> "init"]
    /\ sjid = [w \in Workers |-> None]
    /\ attempt = [w \in Workers |-> 0]
    /\ starts = [w \in Workers |-> 0]
    /\ cur = [w \in Workers |-> None]
    /\ owner = [w \in Workers |-> FALSE]
    /\ qbJob = [w \in Workers |-> None]
    /\ qbStarted = [w \in Workers |-> FALSE]
    /\ hbThread = [w \in Workers |-> FALSE]
    /\ path = [w \in Workers |-> "none"]
    /\ sawEmpty = [w \in Workers |-> FALSE]
    /\ faulted = [w \in Workers |-> FALSE]
    /\ tracker = {}
    /\ epStarted = FALSE
    /\ epc = "idle"
    /\ folders = 0
    /\ batch = NoBatch
    /\ last = NoCall
    /\ mailbox = {}
    /\ index = {}
    /\ spc = "idle"
    /\ mode = "none"
    /\ sync = NoReconcile
    /\ reap = [w \in Workers |-> NoCleanup]
    /\ lease0 = {}
    /\ client = NoClient
    /\ InitThreads
    /\ walk = NoWalk
    /\ split = NoSplit

(***************************************************************************)
(* run_exchange_connector, up to the sync job being obtained.              *)
(***************************************************************************)

\* QBusinessClient.has_running_sync_jobs: any job of the data source in SYNCING.
HasRunningSyncJobs == svcRunning # None

\* The check for running jobs that opens the run: with auto-resolve disabled and
\* a job running, the run ends with exit status 1.  Workers are interchangeable:
\* they are numbered in the order in which their runs begin.
Preflight(w) ==
    /\ pc[w] = "init"
    /\ \A v \in Workers : v < w => pc[v] # "init"
    /\ pc' = [pc EXCEPT ![w] = IF HasRunningSyncJobs /\ ~autoResolve THEN "exit1" ELSE "reap"]
    /\ UNCHANGED <<batchVars, syncVars, reapVars, unitVars, leaseVars, svcVars, sjid, attempt, starts, cur, owner, qbJob, qbStarted,
                   hbThread, path, sawEmpty, faulted>>

\* sync_coordinator.cleanup_stale_registrations(): every failure is swallowed.
Cleanup(w) ==
    /\ pc[w] = "reap"
    /\ \E f \in Outcomes({"error"}) :
        /\ Fault(w, f)
        /\ lease' = IF f = "ok" THEN CleanupStale(lease, now) ELSE lease
        /\ reaped' = IF f = "ok"
                      THEN reaped \cup {r.job : r \in SyncJobs(lease \ CleanupStale(lease, now))}
                      ELSE reaped
    /\ pc' = [pc EXCEPT ![w] = "getactive"]
    /\ UNCHANGED <<batchVars, syncVars, reapVars, unitVars, now, autoResolve, svcVars, sjid, attempt, starts, cur, owner, qbJob,
                   qbStarted, hbThread, path, sawEmpty>>

\* start_or_join_sync_job, first step: active_job = self.get_active_sync_job().
\* A ClientError makes get_active_sync_job answer None (the start path); any other
\* exception ends start_or_join_sync_job with None.
GetActive(w) ==
    /\ pc[w] = "getactive"
    /\ \E f \in Outcomes({"error", "raise"}) :
        /\ Fault(w, f)
        /\ LET found == IF f = "ok" THEN ActiveSyncJob(lease, now) ELSE None
           IN  /\ lease' = IF f = "ok" THEN lease \ StaleSyncJobsRemoved(lease, now) ELSE lease
               /\ sjid' = [sjid EXCEPT ![w] = found]
               /\ pc' = [pc EXCEPT ![w] = IF f = "raise" THEN "exit1"
                                          ELSE IF found # None THEN "join" ELSE "hasrun"]
               /\ path' = [path EXCEPT ![w] = IF f = "raise" THEN "none"
                                              ELSE IF found # None THEN "join" ELSE "start"]
        /\ sawEmpty' = [sawEmpty EXCEPT ![w] = (f = "ok" /\ lease = {})]
    /\ UNCHANGED <<batchVars, syncVars, reapVars, unitVars, now, autoResolve, reaped, svcVars, attempt, starts, cur, owner, qbJob, qbStarted,
                   hbThread>>

\* Join path: register_container(sync_job_id) for the job that was found.
RegisterContainerJoin(w) ==
    /\ pc[w] = "join"
    /\ \E f \in Outcomes({"error"}) :
        /\ Fault(w, f)
        /\ IF f = "ok"
           THEN /\ lease' = PutItem(lease, ContainerItem(sjid[w], w, now))
                /\ cur' = [cur EXCEPT ![w] = sjid[w]]
                /\ pc' = [pc EXCEPT ![w] = "working"]
                /\ sjid' = sjid
           ELSE /\ pc' = [pc EXCEPT ![w] = "exit1"]
                /\ sjid' = [sjid EXCEPT ![w] = None]
                /\ UNCHANGED <<lease, cur>>
    /\ UNCHANGED <<batchVars, syncVars, reapVars, unitVars, now, autoResolve, reaped, svcVars, attempt, starts, owner, qbJob, qbStarted,
                   hbThread, path, sawEmpty>>

\* QBusinessClient.start_sync_job, up to the first request: a job this client
\* already started is reused; a running job with auto-resolve disabled is a failure.
HasRunning(w) ==
    /\ pc[w] = "hasrun"
    /\ IF qbJob[w] # None /\ qbStarted[w]
       THEN /\ sjid' = [sjid EXCEPT ![w] = qbJob[w]]
            /\ pc' = [pc EXCEPT ![w] = "regjob"]
       ELSE IF HasRunningSyncJobs /\ ~autoResolve
       THEN /\ sjid' = [sjid EXCEPT ![w] = None]
            /\ pc' = [pc EXCEPT ![w] = "exit1"]
       ELSE /\ pc' = [pc EXCEPT ![w] = "start"]
            /\ sjid' = sjid
    /\ UNCHANGED <<batchVars, syncVars, reapVars, unitVars, leaseVars, svcVars, attempt, starts, cur, owner, qbJob, qbStarted,
                   hbThread, path, sawEmpty, faulted>>

\* The index service starts a job unless one is running (ConflictException).
\* A started job gets the next executionId.
StartAccepted(w) ==
    /\ svcStarted' = svcStarted + 1
    /\ svcRunning' = svcStarted + 1
    /\ qbJob' = [qbJob EXCEPT ![w] = svcStarted + 1]
    /\ qbStarted' = [qbStarted EXCEPT ![w] = TRUE]
    /\ sjid' = [sjid EXCEPT ![w] = svcStarted + 1]
    /\ pc' = [pc EXCEPT ![w] = "regjob"]

StartFailed(w) ==
    /\ sjid' = [sjid EXCEPT ![w] = None]
    /\ pc' = [pc EXCEPT ![w] = "exit1"]
    /\ UNCHANGED <<svcRunning, svcStarted, qbJob, qbStarted>>

\* First start_data_source_sync_job request.  On success the heartbeat thread is
\* started; on a conflict the resolution loop is entered when auto-resolve is on.
StartCall(w) ==
    /\ pc[w] = "start"
    /\ starts' = [starts EXCEPT ![w] = @ + 1]
    /\ IF svcRunning = None
       THEN /\ StartAccepted(w)
            /\ hbThread' = [hbThread EXCEPT ![w] = TRUE]
            /\ attempt' = attempt
       ELSE IF ~autoResolve \/ MaxConflictRetries = 0
       THEN /\ StartFailed(w)
            /\ UNCHANGED <<hbThread, attempt>>
       ELSE /\ attempt' = [attempt EXCEPT ![w] = 0]
            /\ pc' = [pc EXCEPT ![w] = "stopex"]
            /\ UNCHANGED <<svcRunning, svcStarted, qbJob, qbStarted, sjid, hbThread>>
    /\ UNCHANGED <<batchVars, syncVars, reapVars, unitVars, leaseVars, stopsBy, cur, owner, path, sawEmpty, faulted>>

\* Faulty variant: the loop takes another round whatever attempt is.
NextAttemptUnbounded(w) ==
    /\ attempt' = [attempt EXCEPT ![w] = @ + 1]
    /\ pc' = [pc EXCEPT ![w] = "stopex"]
    /\ UNCHANGED <<sjid, svcRunning, svcStarted, qbJob, qbStarted>>

\* Next round of the loop, or failure once attempt = max_retries - 1.
NextAttempt(w) ==
    IF attempt[w] < MaxConflictRetries - 1
    THEN /\ attempt' = [attempt EXCEPT ![w] = @ + 1]
         /\ pc' = [pc EXCEPT ![w] = "stopex"]
         /\ UNCHANGED <<sjid, svcRunning, svcStarted, qbJob, qbStarted>>
    ELSE /\ StartFailed(w)
         /\ attempt' = attempt

\* The wait loop of _stop_existing_sync_jobs: sleep, list the jobs, leave when
\* none is running; first is the listing from which on the service shows none.
RECURSIVE WaitLoop(_, _, _)
WaitLoop(waited_time, polls, first) ==
    IF waited_time < MaxWaitTime
    THEN IF polls + 1 >= first
         THEN [stopped |-> TRUE, polls |-> polls + 1,
               waited_time |-> waited_time + WaitInterval]
         ELSE WaitLoop(waited_time + WaitInterval, polls + 1, first)
    ELSE [stopped |-> FALSE, polls |-> polls, waited_time |-> waited_time]

\* The service shows no running job at the first listing, at the last one the
\* loop can make, or only later.
PollAnswers == {1, MaxWaitTime \div WaitInterval, MaxWaitTime \div WaitInterval + 1}

\* _stop_existing_sync_jobs: stop every running job and poll until none runs, or
\* until the 60 s limit.
StopExisting(w) ==
    /\ pc[w] = "stopex"
    /\ \E first \in PollAnswers :
        IF svcRunning = None \/ WaitLoop(0, 0, first).stopped
        THEN /\ svcRunning' = None
             /\ pc' = [pc EXCEPT ![w] = "retry"]
             /\ UNCHANGED <<attempt, sjid, svcStarted, qbJob, qbStarted>>
        ELSE NextAttempt(w)
    /\ UNCHANGED <<batchVars, syncVars, reapVars, unitVars, leaseVars, stopsBy, starts, cur, owner, hbThread, path, sawEmpty, faulted>>

\* The retried start request of the loop: no heartbeat thread is started here.
RetryStart(w) ==
    /\ pc[w] = "retry"
    /\ starts' = [starts EXCEPT ![w] = @ + 1]
    /\ IF svcRunning = None
       THEN /\ StartAccepted(w)
            /\ attempt' = attempt
       ELSE NextAttempt(w)
    /\ UNCHANGED <<batchVars, syncVars, reapVars, unitVars, leaseVars, stopsBy, cur, owner, hbThread, path, sawEmpty, faulted>>

\* register_sync_job(sync_job_id): put_item with attribute_not_exists(job_id) on the
\* key (SYNC_JOB, sync_job_id).  A ConditionalCheckFailedException records the job
\* as somebody else's; another ClientError only answers False; both then take the
\* "another container started the sync job" branch.
RegisterSyncJob(w) ==
    /\ pc[w] = "regjob"
    /\ \E f \in Outcomes({"error", "raise"}) :
        /\ Fault(w, f)
        /\ IF f = "raise"
           THEN /\ pc' = [pc EXCEPT ![w] = "exit1"]
                /\ sjid' = [sjid EXCEPT ![w] = None]
                /\ UNCHANGED <<lease, cur, owner>>
           ELSE /\ pc' = [pc EXCEPT ![w] = "regcont"]
                /\ sjid' = sjid
                /\ IF f = "error"
                   THEN UNCHANGED <<lease, cur, owner>>
                   ELSE IF \E r \in SyncJobs(lease) : r.job = sjid[w]
                   THEN /\ cur' = [cur EXCEPT ![w] = sjid[w]]
                        /\ owner' = [owner EXCEPT ![w] = FALSE]
                        /\ lease' = lease
                   ELSE /\ lease' = lease \cup {SyncJobItem(sjid[w], w, now)}
                        /\ cur' = [cur EXCEPT ![w] = sjid[w]]
                        /\ owner' = [owner EXCEPT ![w] = TRUE]
    /\ UNCHANGED <<batchVars, syncVars, reapVars, unitVars, now, autoResolve, reaped, svcVars, attempt, starts, qbJob, qbStarted, hbThread,
                   path, sawEmpty>>

\* register_container(sync_job_id) after register_sync_job, as owner or as joiner
\* of the job this worker has just started.
RegisterContainer(w) ==
    /\ pc[w] = "regcont"
    /\ \E f \in Outcomes({"error"}) :
        /\ Fault(w, f)
        /\ IF f = "ok"
           THEN /\ lease' = PutItem(lease, ContainerItem(sjid[w], w, now))
                /\ cur' = [cur EXCEPT ![w] = sjid[w]]
                /\ pc' = [pc EXCEPT ![w] = "working"]
                /\ sjid' = sjid
           ELSE /\ pc' = [pc EXCEPT ![w] = "exit1"]
                /\ sjid' = [sjid EXCEPT ![w] = None]
                /\ UNCHANGED <<lease, cur>>
    /\ UNCHANGED <<batchVars, syncVars, reapVars, unitVars, now, autoResolve, reaped, svcVars, attempt, starts, owner, qbJob, qbStarted,
                   hbThread, path, sawEmpty>>

(***************************************************************************)
(* Processing, then the release at the end of the run.                     *)
(***************************************************************************)

\* process_all_accounts answered success: the run goes on to stop_sync_job().
ProcessOk(w) ==
    /\ pc[w] = "working"
    /\ pc' = [pc EXCEPT ![w] = "release"]
    /\ UNCHANGED <<batchVars, syncVars, reapVars, unitVars, leaseVars, svcVars, sjid, attempt, starts, cur, owner, qbJob, qbStarted,
                   hbThread, path, sawEmpty, faulted>>

\* process_all_accounts answered failure: return 1.
ProcessFail(w) ==
    /\ pc[w] = "working"
    /\ pc' = [pc EXCEPT ![w] = "exit1"]
    /\ UNCHANGED <<batchVars, syncVars, reapVars, unitVars, leaseVars, svcVars, sjid, attempt, starts, cur, owner, qbJob, qbStarted,
                   hbThread, path, sawEmpty, faulted>>

\* QBusinessClient._direct_stop_sync_job: stop_data_source_sync_job names no
\* execution, it stops whatever job of the data source is running; "already
\* stopped" answers are success.
DirectStopSyncJob(w) ==
    /\ svcRunning' = None
    /\ stopsBy' = stopsBy \cup {w}
    /\ qbJob' = [qbJob EXCEPT ![w] = None]
    /\ qbStarted' = [qbStarted EXCEPT ![w] = FALSE]

\* stop_sync_job saw success = True from the coordinator.
CoordinatorStopped(w) ==
    /\ qbJob' = [qbJob EXCEPT ![w] = None]
    /\ qbStarted' = [qbStarted EXCEPT ![w] = FALSE]
    /\ UNCHANGED <<svcRunning, stopsBy>>

\* QBusinessClient.stop_sync_job up to and including unregister_container and the
\* non-owner return of stop_sync_job_if_owner.  An exception other than ClientError
\* makes the coordinator answer False, and stop_sync_job falls back to the direct stop.
StopSyncJob(w) ==
    /\ pc[w] = "release"
    /\ IF qbJob[w] = None
       THEN /\ pc' = [pc EXCEPT ![w] = "exit0"]
            /\ UNCHANGED <<lease, faults, faulted, svcRunning, stopsBy, cur, qbJob,
                           qbStarted, hbThread>>
       ELSE /\ hbThread' = [hbThread EXCEPT ![w] = FALSE]
            /\ IF cur[w] = None
               THEN /\ CoordinatorStopped(w)
                    /\ pc' = [pc EXCEPT ![w] = "exit0"]
                    /\ UNCHANGED <<lease, faults, faulted, cur>>
               ELSE \E f \in Outcomes({"error", "raise"}) :
                    /\ Fault(w, f)
                    /\ lease' = IF f = "ok"
                                THEN DeleteItem(lease, <<"CONTAINER", cur[w], w>>)
                                ELSE lease
                    /\ IF f = "raise"
                       THEN /\ DirectStopSyncJob(w)
                            /\ pc' = [pc EXCEPT ![w] = "exit0"]
                            /\ cur' = cur
                       ELSE IF ~owner[w]
                       THEN /\ CoordinatorStopped(w)
                            /\ cur' = [cur EXCEPT ![w] = None]
                            /\ pc' = [pc EXCEPT ![w] = "exit0"]
                       ELSE /\ pc' = [pc EXCEPT ![w] = "relcheck"]
                            /\ UNCHANGED <<svcRunning, stopsBy, cur, qbJob, qbStarted>>
    /\ UNCHANGED <<batchVars, syncVars, reapVars, unitVars, now, autoResolve, reaped, svcStarted, sjid, attempt, starts, owner, path, sawEmpty>>

\* stop_sync_job_if_owner, owner branch: active_containers = get_active_containers().
\* A ClientError makes get_active_containers answer [].
CheckContainers(w) ==
    /\ pc[w] = "relcheck"
    /\ \E f \in Outcomes({"error", "raise"}) :
        /\ Fault(w, f)
        /\ lease' = IF f = "ok" THEN lease \ StaleContainersRemoved(lease, cur[w], now)
                    ELSE lease
        /\ IF f = "raise"
           THEN /\ DirectStopSyncJob(w)
                /\ pc' = [pc EXCEPT ![w] = "exit0"]
                /\ UNCHANGED <<cur, owner>>
           ELSE IF f = "ok" /\ ActiveContainers(lease, cur[w], now) # {}
           THEN /\ cur' = [cur EXCEPT ![w] = None]
                /\ owner' = [owner EXCEPT ![w] = FALSE]
                /\ CoordinatorStopped(w)
                /\ pc' = [pc EXCEPT ![w] = "exit0"]
           ELSE /\ pc' = [pc EXCEPT ![w] = "relstop"]
                /\ UNCHANGED <<cur, owner, svcRunning, stopsBy, qbJob, qbStarted>>
    /\ UNCHANGED <<batchVars, syncVars, reapVars, unitVars, now, autoResolve, reaped, svcStarted, sjid, attempt, starts, hbThread, path,
                   sawEmpty>>

\* success = self._direct_stop_qbusiness_sync_job()
DirectStop(w) ==
    /\ pc[w] = "relstop"
    /\ DirectStopSyncJob(w)
    /\ pc' = [pc EXCEPT ![w] = "relunreg"]
    /\ UNCHANGED <<batchVars, syncVars, reapVars, unitVars, leaseVars, svcStarted, sjid, attempt, starts, cur, owner, hbThread, path,
                   sawEmpty, faulted>>

\* unregister_sync_job(current_sync_job_id): delete_item under the condition
\* owner_container_id = container_id.  An exception other than ClientError makes
\* the coordinator answer False and stop_sync_job repeat the direct stop.
UnregisterSyncJob(w) ==
    /\ pc[w] = "relunreg"
    /\ \E f \in Outcomes({"error", "raise"}) :
        /\ Fault(w, f)
        /\ IF f = "ok" /\ owner[w]
                       /\ \E r \in SyncJobs(lease) : r.job = cur[w] /\ r.who = w
           THEN /\ lease' = DeleteItem(lease, <<"SYNC_JOB", cur[w], None>>)
                /\ cur' = [cur EXCEPT ![w] = None]
                /\ owner' = [owner EXCEPT ![w] = FALSE]
           ELSE UNCHANGED <<lease, cur, owner>>
        /\ IF f = "raise"
           THEN DirectStopSyncJob(w)
           ELSE UNCHANGED <<svcRunning, stopsBy, qbJob, qbStarted>>
    /\ pc' = [pc EXCEPT ![w] = "exit0"]
    /\ UNCHANGED <<batchVars, syncVars, reapVars, unitVars, now, autoResolve, reaped, svcStarted, sjid, attempt, starts, hbThread, path,
                   sawEmpty>>

(***************************************************************************)
(* The heartbeat thread and the clock.                                     *)
(***************************************************************************)

\* The thread beats every 30 s, so it has beaten before the clock's next step.
HeartbeatDue(w) ==
    /\ hbThread[w]
    /\ qbJob[w] # None
    /\ ~\E r \in lease : ItemKey(r) = <<"CONTAINER", qbJob[w], w>> /\ r.hb = now

\* _heartbeat_worker: sync_coordinator.update_heartbeat(self.current_sync_job_id)
Heartbeat(w) ==
    /\ HeartbeatDue(w)
    /\ lease' = HeartbeatItem(lease, qbJob[w], w, now)
    /\ UNCHANGED <<batchVars, syncVars, reapVars, unitVars, now, autoResolve, reaped, faults, svcVars, workerVars>>

\* run_once: the process ends with the run, and its daemon heartbeat thread with
\* it; under run_continuous the process and the thread live on.
ProcessExit(w) ==
    /\ pc[w] \in {"exit0", "exit1"}
    /\ hbThread[w]
    /\ hbThread' = [hbThread EXCEPT ![w] = FALSE]
    /\ UNCHANGED <<batchVars, syncVars, reapVars, unitVars, leaseVars, svcVars, pc, sjid, attempt, starts, cur, owner, qbJob,
                   qbStarted, path, sawEmpty, faulted>>

Tick ==
    /\ now + TickSeconds <= MaxTime
    /\ \A w \in Workers : ~HeartbeatDue(w)
    /\ now' = now + TickSeconds
    /\ UNCHANGED <<batchVars, syncVars, reapVars, unitVars, autoResolve, lease, faults, reaped, svcVars, workerVars>>

Next ==
    \/ Tick
    \/ \E w \in Workers :
        \/ Preflight(w)
        \/ Cleanup(w)
        \/ GetActive(w)
        \/ RegisterContainerJoin(w)
        \/ HasRunning(w)
        \/ StartCall(w)
        \/ StopExisting(w)
        \/ RetryStart(w)
        \/ RegisterSyncJob(w)
        \/ RegisterContainer(w)
        \/ ProcessOk(w)
        \/ ProcessFail(w)
        \/ StopSyncJob(w)
        \/ CheckContainers(w)
        \/ DirectStop(w)
        \/ UnregisterSyncJob(w)
        \/ Heartbeat(w)
        \/ ProcessExit(w)

Spec == Init /\ [][Next]_vars

(***************************************************************************)
(* Batch submission and tracking (EmailProcessor, DynamoDBClient).         *)
(* An email's document carries the email's id; documents_to_delete is      *)
(* empty at every call site of _submit_document_batch.                     *)
(***************************************************************************)

\* Entry of emails_to_mark: status is 'processed' when a document was created for
\* the email and 'failed' when none was.
EmailInfo(i, folder, docs) ==
    [email_id |-> i, folder_name |-> folder, account_email |-> Account,
     status |-> IF i \in docs THEN "processed" ELSE "failed"]

\* emails_to_mark in the order the folder was read.
RECURSIVE EmailsToMark(_, _, _)
EmailsToMark(ids, folder, docs) ==
    IF ids = {} THEN <<>>
    ELSE LET i == CHOOSE x \in ids : \A y \in ids : x <= y
         IN  <<EmailInfo(i, folder, docs)>> \o EmailsToMark(ids \ {i}, folder, docs)

\* attempt_count of the item with that key; 0 stands for if_not_exists(.., :zero).
AttemptCount(T, i) ==
    LET old == {r \in T : r.email_id = i}
    IN  IF old = {} THEN 0 ELSE (CHOOSE r \in old : TRUE).attempt_count

\* DynamoDBClient.mark_email_processed: update_item on Key {email_id}, SET of every
\* attribute, attempt_count = if_not_exists(attempt_count, 0) + 1.
MarkEmailProcessed(T, e, status) ==
    {r \in T : r.email_id # e.email_id}
        \cup {[email_id |-> e.email_id, folder_name |-> e.folder_name,
               account_email |-> e.account_email, status |-> status,
               attempt_count |-> AttemptCount(T, e.email_id) + 1]}

\* QBusinessClient.batch_put_documents: (success, failed_documents).  Every failure
\* of the call as a whole answers (False, []): no started sync job, an exception of
\* the client ("transport"), an HTTP status other than 200 ("http").
BatchPutDocuments(docs, started, outcome, failed) ==
    IF docs = {} THEN [success |-> TRUE, failed |-> {}]
    ELSE IF ~started THEN [success |-> FALSE, failed |-> {}]
    ELSE IF outcome # "accepted" THEN [success |-> FALSE, failed |-> {}]
    ELSE [success |-> failed = {}, failed |-> failed]

\* Status chosen by _mark_emails_in_dynamodb.
FinalStatus(e, failed_document_ids, qbusiness_submission_failed) ==
    IF qbusiness_submission_failed THEN "failed"
    ELSE IF e.email_id \in failed_document_ids THEN "failed"
    ELSE IF e.status = "failed" THEN "failed"
    ELSE "processed"

\* Status chosen by _mark_emails_individually.
FinalStatusIndividually(e, failed_document_ids, qbusiness_submission_failed) ==
    IF qbusiness_submission_failed \/ e.email_id \in failed_document_ids
          \/ e.status = "failed"
    THEN "failed" ELSE "processed"

\* One mark_email_processed call within a _submit_document_batch call.  st carries
\* the table, the calls made per email, the emails stored, and how many more calls
\* for email fault.at the store fails: with a ClientError (the call answers False)
\* or with another exception (the call raises).
MarkCall(st, e, status, fault) ==
    IF fault.at = e.email_id /\ st.left > 0
    THEN [st EXCEPT !.tries[e.email_id] = @ + 1,
                    !.left = @ - 1,
                    !.raised = (fault.kind = "raise")]
    ELSE [st EXCEPT !.tries[e.email_id] = @ + 1,
                    !.tracker = MarkEmailProcessed(st.tracker, e, status),
                    !.stored = @ \cup {e.email_id},
                    !.raised = FALSE]

\* _mark_emails_in_dynamodb: the loop ends where a call raises.
RECURSIVE MarkEmailsInDynamoDB(_, _, _, _, _)
MarkEmailsInDynamoDB(st, todo, failed_document_ids, qbusiness_submission_failed, fault) ==
    IF todo = <<>> THEN st
    ELSE LET e == Head(todo)
             after == MarkCall(st, e,
                          FinalStatus(e, failed_document_ids, qbusiness_submission_failed),
                          fault)
         IN  IF after.raised THEN after
             ELSE MarkEmailsInDynamoDB(after, Tail(todo), failed_document_ids,
                                       qbusiness_submission_failed, fault)

\* _mark_emails_individually: each email in its own try/except.
RECURSIVE MarkEmailsIndividually(_, _, _, _, _)
MarkEmailsIndividually(st, todo, failed_document_ids, qbusiness_submission_failed, fault) ==
    IF todo = <<>> THEN st
    ELSE LET e == Head(todo)
             after == MarkCall(st, e,
                          FinalStatusIndividually(e, failed_document_ids,
                                                  qbusiness_submission_failed),
                          fault)
         IN  MarkEmailsIndividually(
                 [after EXCEPT !.raised = FALSE, !.individually = @ \cup {e.email_id}],
                 Tail(todo), failed_document_ids, qbusiness_submission_failed, fault)

\* The finally block of _submit_document_batch.
MarkInFinally(st, todo, failed_document_ids, qbusiness_submission_failed, fault) ==
    IF todo = <<>> THEN st
    ELSE LET pass == MarkEmailsInDynamoDB(st, todo, failed_document_ids,
                                          qbusiness_submission_failed, fault)
         IN  IF pass.raised
             THEN [MarkEmailsIndividually(pass, todo, failed_document_ids,
                                          qbusiness_submission_failed, fault)
                     EXCEPT !.passRaised = TRUE]
             ELSE pass

\* _submit_document_batch(documents, [], emails_to_mark): the table and the
\* bookkeeping after the call, and the value returned.
SubmitDocumentBatchResult(T, started, todo, docs, outcome, failed, fault) ==
    LET st0 == [tracker |-> T, tries |-> [i \in Items |-> 0], stored |-> {},
                left |-> fault.times, raised |-> FALSE, passRaised |-> FALSE,
                individually |-> {}]
    IN  IF docs = {}
        THEN \* batch_size == 0: the emails are marked inside the try, "return True"
             \* is left through the finally block, which marks them again.
             LET first == IF todo = <<>> THEN st0
                          ELSE MarkEmailsInDynamoDB(st0, todo, {}, FALSE, fault)
                 qbusiness_submission_failed == first.raised
             IN  [st |-> MarkInFinally([first EXCEPT !.raised = FALSE], todo, {},
                                       qbusiness_submission_failed, fault),
                  ret |-> ~qbusiness_submission_failed]
        ELSE LET put == BatchPutDocuments(docs, started, outcome, failed)
                 failed_document_ids == put.failed
                 qbusiness_submission_failed == FALSE
             IN  [st |-> MarkInFinally(st0, todo, failed_document_ids,
                                       qbusiness_submission_failed, fault),
                  ret |-> ~qbusiness_submission_failed]

\* What the tracking table does during one call: nothing, or it fails the first
\* call for one email with a ClientError, or it fails the first calls for one email
\* with another exception.
TrackerFaults(ids) ==
    {NoTrackerFault}
        \cup {[kind |-> "error", at |-> i, times |-> 1] : i \in ids}
        \cup {[kind |-> "raise", at |-> i, times |-> n] :
                i \in ids, n \in 1..MaxTrackerFaults}

\* process_all_accounts(sync_mode, sync_job_id): a sync job id that is given is
\* installed in the processor's own QBusinessClient as a started job.
ProcessAllAccounts ==
    /\ epc = "idle"
    /\ \E given \in BOOLEAN : epStarted' = given
    /\ epc' = "processing"
    /\ UNCHANGED <<leaseVars, svcVars, workerVars, reapVars, unitVars, syncVars, tracker, folders, batch, last>>

\* process_folder_emails for the next folder of the account, up to the batch
\* being complete: the emails read (ids) and those of them a document was
\* created for (docs).
FormBatch ==
    /\ epc = "processing"
    /\ folders < MaxFolders
    /\ batch = NoBatch
    /\ \E ids \in SUBSET Items \ {{}} : \E docs \in SUBSET ids :
          batch' = [ids |-> ids, docs |-> docs]
    /\ last' = NoCall
    /\ UNCHANGED <<leaseVars, svcVars, workerVars, reapVars, unitVars, syncVars, tracker, epStarted, epc, folders>>

\* _submit_document_batch(documents_batch, [], emails_to_mark_batch), with what
\* batch_put_document does (outcome, failed) and what the tracking table does
\* (fault); the batches are cleared afterwards.
SubmitDocumentBatch ==
    /\ batch # NoBatch
    /\ folders' = folders + 1
    /\ batch' = NoBatch
    /\ \E fault \in TrackerFaults(batch.ids) :
       \E outcome \in (IF batch.docs = {} THEN {"none"}
                       ELSE IF ~epStarted THEN {"nojob"}
                       ELSE {"transport", "http", "accepted"}) :
       \E failed \in (IF outcome = "accepted" THEN SUBSET batch.docs ELSE {{}}) :
          LET res == SubmitDocumentBatchResult(tracker, epStarted,
                         EmailsToMark(batch.ids, FolderNames[folders + 1], batch.docs),
                         batch.docs, outcome, failed, fault)
          IN  /\ tracker' = res.st.tracker
              /\ last' = [ids |-> batch.ids, docs |-> batch.docs, outcome |-> outcome,
                          failed |-> failed, fault |-> fault.kind,
                          ret |-> res.ret, tries |-> res.st.tries,
                          stored |-> res.st.stored, raised |-> res.st.passRaised,
                          individually |-> res.st.individually]
    /\ UNCHANGED <<leaseVars, svcVars, workerVars, reapVars, unitVars, syncVars, epStarted, epc>>

NextBatch ==
    \/ ProcessAllAccounts
    \/ FormBatch
    \/ SubmitDocumentBatch

InitBatch == Init /\ autoResolve

SpecBatch == InitBatch /\ [][NextBatch]_vars

(***************************************************************************)
(* Sync modes and orphan cleanup (EmailProcessor, DynamoDBClient,          *)
(* QBusinessClient.batch_delete_documents).  The account has one folder,   *)
(* FolderNames[1]; a document carries the id of its email; the delete      *)
(* batches of ten hold every id of the model at once.                      *)
(***************************************************************************)

\* A Python call of a method that declares params positional parameters (self
\* apart, none with a default) raises TypeError unless it is given as many.
RaisesTypeError(args, params) == Len(args) # params

\* DynamoDBClient.get_processed_email_ids_for_folder(folder_name): the email_id
\* of every item whose folder_name is the one given.
GetProcessedEmailIdsForFolder(T, args) ==
    IF RaisesTypeError(args, GetProcessedEmailIdsForFolderParams)
    THEN [raised |-> TRUE, ids |-> {}]
    ELSE [raised |-> FALSE,
          ids |-> {r.email_id : r \in {x \in T : x.folder_name = args[1]}}]

\* DynamoDBClient.delete_email_record(email_id): delete_item on Key {email_id}.
DeleteEmailRecord(T, args) ==
    IF RaisesTypeError(args, DeleteEmailRecordParams)
    THEN [raised |-> TRUE, tracker |-> T, ok |-> FALSE]
    ELSE [raised |-> FALSE, tracker |-> {r \in T : r.email_id # args[1]}, ok |-> TRUE]

\* EmailProcessor._delete_email_record_by_scan(email_id): scans for items whose
\* folder_email_key attribute ends with the id and deletes the first one found by
\* Key {account_email, folder_email_key}.  mark_email_processed writes no such
\* attribute, and the table's key is email_id: a delete_item with that key is
\* rejected and the method answers False.
DeleteEmailRecordByScan(T, i) ==
    LET found == {r \in T : "folder_email_key" \in DOMAIN r /\ r.email_id = i}
    IN  IF found = {}
        THEN [raised |-> FALSE, tracker |-> T, ok |-> FALSE]
        ELSE [raised |-> FALSE, tracker |-> T, ok |-> FALSE]

\* QBusinessClient.batch_delete_documents(document_ids): sent is what the
\* batch_delete_document request named, if one was sent.
BatchDeleteDocuments(idx, started, ids, outcome, failed) ==
    IF ids = {} THEN [index |-> idx, ok |-> TRUE, sent |-> {}]
    ELSE IF ~started THEN [index |-> idx, ok |-> FALSE, sent |-> {}]
    ELSE IF outcome # "accepted" THEN [index |-> idx, ok |-> FALSE, sent |-> ids]
    ELSE [index |-> idx \ (ids \ failed), ok |-> (ids \cap failed = {}), sent |-> ids]

\* The loop over email_ids in _delete_documents_and_records; an exception leaves
\* the loop.  keyed: account_email and folder_name were given.
RECURSIVE DeleteRecords(_, _, _)
DeleteRecords(st, todo, keyed) ==
    IF todo = {} THEN st
    ELSE LET i == CHOOSE x \in todo : \A y \in todo : x <= y
             r == IF keyed
                  THEN DeleteEmailRecord(st.tracker, <<i, Account, FolderNames[1]>>)
                  ELSE DeleteEmailRecordByScan(st.tracker, i)
         IN  IF r.raised THEN [st EXCEPT !.raised = TRUE]
             ELSE DeleteRecords(
                      [tracker |-> r.tracker,
                       count |-> st.count + (IF r.ok THEN 1 ELSE 0),
                       deleted |-> st.deleted \cup (IF r.ok THEN {i} ELSE {}),
                       raised |-> FALSE],
                      todo \ {i}, keyed)

\* EmailProcessor._delete_documents_and_records(email_ids, ..): the index first,
\* then the tracking table.
DeleteDocumentsAndRecords(T, idx, started, email_ids, keyed, outcome, failed) ==
    IF email_ids = {}
    THEN [tracker |-> T, index |-> idx, sent |-> {}, deleted |-> {}, ok |-> TRUE]
    ELSE LET qb == BatchDeleteDocuments(idx, started, email_ids, outcome, failed)
             db == DeleteRecords([tracker |-> T, count |-> 0, deleted |-> {},
                                  raised |-> FALSE], email_ids, keyed)
         IN  [tracker |-> db.tracker, index |-> qb.index, sent |-> qb.sent,
              deleted |-> db.deleted,
              ok |-> ~db.raised /\ qb.ok /\ db.count = Cardinality(email_ids)]

\* Faulty variant: an iteration of items that raises is taken for an empty folder.
FindAndCleanupFolderOrphansErrorAsEmpty(T, idx, started, sync_mode, processed_ids, items, outcome, failed) ==
    LET orphaned_ids == processed_ids.ids \ items.ids
        del == DeleteDocumentsAndRecords(T, idx, started, orphaned_ids, TRUE, outcome, failed)
    IN  IF sync_mode = "full" \/ processed_ids.none \/ items.none \/ orphaned_ids = {}
        THEN [tracker |-> T, index |-> idx, sent |-> {}, deleted |-> {}, ret |-> 0]
        ELSE [tracker |-> del.tracker, index |-> del.index, sent |-> del.sent,
              deleted |-> del.deleted,
              ret |-> IF del.ok THEN Cardinality(orphaned_ids) ELSE 0]

\* Faulty variant: the orphan cleanup does not look at sync_mode.
FindAndCleanupFolderOrphansAnyMode(T, idx, started, sync_mode, processed_ids, items, outcome, failed) ==
    LET orphaned_ids == processed_ids.ids \ items.ids
        del == DeleteDocumentsAndRecords(T, idx, started, orphaned_ids, TRUE, outcome, failed)
    IN  IF processed_ids.none \/ items.none \/ items.raises \/ orphaned_ids = {}
        THEN [tracker |-> T, index |-> idx, sent |-> {}, deleted |-> {}, ret |-> 0]
        ELSE [tracker |-> del.tracker, index |-> del.index, sent |-> del.sent,
              deleted |-> del.deleted,
              ret |-> IF del.ok THEN Cardinality(orphaned_ids) ELSE 0]

\* EmailProcessor._find_and_cleanup_folder_orphans(folder_name, account_email,
\* sync_mode, sync_job_id, processed_ids, items).  processed_ids.none and
\* items.none stand for None, items.raises for an iteration of items that raises.
FindAndCleanupFolderOrphans(T, idx, started, sync_mode, processed_ids, items, outcome, failed) ==
    LET nothing == [tracker |-> T, index |-> idx, sent |-> {}, deleted |-> {}, ret |-> 0]
    IN  IF sync_mode = "full" THEN nothing
        ELSE IF processed_ids.none \/ items.none THEN nothing
        ELSE IF items.raises THEN nothing
        ELSE LET orphaned_ids == processed_ids.ids \ items.ids
                 del == DeleteDocumentsAndRecords(T, idx, started, orphaned_ids, TRUE,
                                                  outcome, failed)
             IN  IF orphaned_ids = {} THEN nothing
                 ELSE [tracker |-> del.tracker, index |-> del.index, sent |-> del.sent,
                       deleted |-> del.deleted,
                       ret |-> IF del.ok THEN Cardinality(orphaned_ids) ELSE 0]

\* Faulty variant: the preparation empties the tracking table.
PrepareFullSyncClearsAll(T, idx, started, outcome, failed) == [tracker |-> {}, index |-> idx, ok |-> TRUE]

\* EmailProcessor.prepare_full_sync(sync_job_id) with a job id: every tracked id is
\* handed to _delete_documents_and_records without account and folder; the answer
\* of the helper only feeds a printed count.
PrepareFullSync(T, idx, started, outcome, failed) ==
    LET all_processed == {r.email_id : r \in T}
        del == DeleteDocumentsAndRecords(T, idx, started, all_processed, FALSE,
                                         outcome, failed)
    IN  [tracker |-> del.tracker, index |-> del.index, ok |-> TRUE]

\* DynamoDBClient.clear_processed_emails_for_account(account_email).
ClearProcessedEmailsForAccount(T, account_email) ==
    {r \in T : r.account_email # account_email}

\* The documents the index service holds after batch_put_documents(docs).
Delivered(docs, started, outcome, failed) ==
    IF docs # {} /\ started /\ outcome = "accepted" THEN docs \ failed ELSE {}

\* The record kept of a _find_and_cleanup_folder_orphans call.
ReconcileRecord(via, T, idx, started, sync_mode, processed_ids, items, outcome, failed, res) ==
    [called |-> TRUE, via |-> via, sync_mode |-> sync_mode,
     tracked |-> processed_ids.ids, live |-> items.ids,
     enumerated |-> ~items.raises /\ ~items.none /\ ~processed_ids.none,
     raised |-> items.raises,
     started |-> started, outcome |-> outcome,
     failed |-> failed \cap (processed_ids.ids \ items.ids),
     indexDeletes |-> res.sent, trackerDeletes |-> res.deleted,
     indexBefore |-> idx, trackerBefore |-> T, ret |-> res.ret]

\* What batch_delete_document and batch_put_document do when they are reached.
ServiceOutcomes == {"accepted", "transport"}

\* The Exchange server: an email arrives in the folder or is removed from it
\* between two runs.
MailboxChange ==
    /\ spc = "idle"
    /\ \E i \in Items :
          mailbox' = IF i \in mailbox THEN mailbox \ {i} ELSE mailbox \cup {i}
    /\ UNCHANGED <<leaseVars, svcVars, workerVars, reapVars, unitVars, batchVars, index, spc, mode, sync>>

\* process_all_accounts(sync_mode, sync_job_id) of a new EmailProcessor, up to the
\* loop over the accounts: prepare_full_sync in full mode, and only then the job
\* id is installed in the processor's own QBusinessClient.
ProcessAllAccountsInMode ==
    /\ spc = "idle"
    /\ \E sync_mode \in {"delta", "full"} :
       \E outcome \in ServiceOutcomes : \E failed \in SUBSET Items :
          LET prep == IF sync_mode = "full"
                      THEN PrepareFullSync(tracker, index, epStarted, outcome, failed)
                      ELSE [tracker |-> tracker, index |-> index, ok |-> TRUE]
          IN  /\ mode' = sync_mode
              /\ tracker' = prep.tracker
              /\ index' = prep.index
    /\ epStarted' = TRUE
    /\ spc' = "account"
    /\ UNCHANGED <<leaseVars, svcVars, workerVars, reapVars, unitVars, epc, folders, batch, last, mailbox, sync>>

\* process_single_account up to the folders: the account's records are cleared in
\* full mode.
ProcessSingleAccount ==
    /\ spc = "account"
    /\ tracker' = IF mode = "full"
                  THEN ClearProcessedEmailsForAccount(tracker, Account)
                  ELSE tracker
    /\ spc' = "folder"
    /\ UNCHANGED <<leaseVars, svcVars, workerVars, reapVars, unitVars, epStarted, epc, folders, batch, last,
                   mailbox, index, mode, sync>>

\* process_folder_emails for the folder of the account, with the sequential
\* processing of its emails; a document is created for every email processed
\* (emails without document are part of the batch submission above).  put/failed
\* is what batch_put_document does, del what batch_delete_document does.  A
\* failure of the folder fails the account and with it the run.
ProcessFolderEmails ==
    /\ spc = "folder"
    /\ \E put \in ServiceOutcomes : \E failed \in SUBSET mailbox :
       \E del \in ServiceOutcomes :
          LET got == IF mode = "delta"
                     THEN GetProcessedEmailIdsForFolder(tracker, <<FolderNames[1], Account>>)
                     ELSE [raised |-> FALSE, ids |-> {}]
              processed_ids == [none |-> FALSE, ids |-> got.ids]
              items == [none |-> FALSE, raises |-> FALSE, ids |-> mailbox]
              rec == FindAndCleanupFolderOrphans(tracker, index, epStarted, mode,
                                                 processed_ids, items, del, {})
              todo == IF mode = "delta" THEN mailbox \ got.ids ELSE mailbox
              made == todo
              outcome == IF made = {} THEN "none" ELSE put
              sub == SubmitDocumentBatchResult(rec.tracker, epStarted,
                         EmailsToMark(todo, FolderNames[1], made), made, outcome,
                         failed \cap made, NoTrackerFault)
          IN  IF mailbox = {}
              THEN \* folder.total_count == 0
                   /\ spc' = IF mode = "delta" THEN "orphans" ELSE "done"
                   /\ UNCHANGED <<tracker, index, sync, last>>
              ELSE IF got.raised
              THEN /\ spc' = "failed"
                   /\ UNCHANGED <<tracker, index, sync, last>>
              ELSE /\ spc' = IF mode = "delta" THEN "orphans" ELSE "done"
                   /\ sync' = ReconcileRecord("folder", tracker, index, epStarted, mode,
                                              processed_ids, items, del, {}, rec)
                   /\ IF todo = {}
                      THEN /\ tracker' = rec.tracker
                           /\ index' = rec.index
                           /\ last' = NoCall
                      ELSE /\ tracker' = sub.st.tracker
                           /\ index' = rec.index
                                         \cup Delivered(made, epStarted, outcome, failed)
                           /\ last' = [ids |-> todo, docs |-> made, outcome |-> outcome,
                                       failed |-> failed \cap made, fault |-> "none",
                                       ret |-> sub.ret, tries |-> sub.st.tries,
                                       stored |-> sub.st.stored,
                                       raised |-> sub.st.passRaised,
                                       individually |-> sub.st.individually]
    /\ UNCHANGED <<leaseVars, svcVars, workerVars, reapVars, unitVars, epStarted, epc, folders, batch,
                   mailbox, mode>>

\* The folder names _cleanup_orphaned_folders finds in the tracking table: it
\* reads them from the folder_email_key attribute of the account's items.
ProcessedFolders(T, account_email) ==
    {r.folder_name : r \in {x \in T : /\ x.account_email = account_email
                                      /\ "folder_email_key" \in DOMAIN x}}

\* _cleanup_orphaned_folders at the end of process_single_account, delta mode
\* only.  For a folder it takes for orphaned it asks
\* get_processed_email_ids_for_folder(folder_name, account_email) inside a
\* try/except that goes on to the next folder.
CleanupOrphanedFolders ==
    /\ spc = "orphans"
    /\ LET orphaned_folders == ProcessedFolders(tracker, Account) \ {FolderNames[1]}
           asked == {f \in orphaned_folders :
                        ~GetProcessedEmailIdsForFolder(tracker, <<f, Account>>).raised}
       IN  /\ asked = {}
           /\ spc' = "done"
    /\ UNCHANGED <<leaseVars, svcVars, workerVars, reapVars, unitVars, batchVars, mailbox, index, mode, sync>>

\* run_exchange_connector returns; the next run builds a new EmailProcessor.
RunReturns ==
    /\ spc \in {"done", "failed"}
    /\ spc' = "idle"
    /\ mode' = "none"
    /\ epStarted' = FALSE
    /\ last' = NoCall
    /\ sync' = NoReconcile
    /\ UNCHANGED <<leaseVars, svcVars, workerVars, reapVars, unitVars, tracker, epc, folders, batch,
                   mailbox, index>>

\* _find_and_cleanup_folder_orphans called on its own where process_folder_emails
\* calls it, with the ids the tracking table holds for the folder name (or None)
\* and the folder's items (or an iteration that raises).
CallFindAndCleanupFolderOrphans ==
    /\ spc = "folder"
    /\ \E sync_mode \in {"delta", "full"} : \E none \in BOOLEAN : \E raises \in BOOLEAN :
       \E outcome \in ServiceOutcomes : \E failed \in SUBSET Items :
          LET got == GetProcessedEmailIdsForFolder(tracker, <<FolderNames[1]>>)
              processed_ids == [none |-> none, ids |-> IF none THEN {} ELSE got.ids]
              items == [none |-> FALSE, raises |-> raises,
                        ids |-> IF raises THEN {} ELSE mailbox]
              res == FindAndCleanupFolderOrphans(tracker, index, epStarted, sync_mode,
                                                 processed_ids, items, outcome, failed)
          IN  /\ tracker' = res.tracker
              /\ index' = res.index
              /\ sync' = ReconcileRecord("call", tracker, index, epStarted, sync_mode,
                                         processed_ids, items, outcome, failed, res)
    /\ UNCHANGED <<leaseVars, svcVars, workerVars, reapVars, unitVars, epStarted, epc, folders, batch, last,
                   mailbox, spc, mode>>

NextSync ==
    \/ MailboxChange
    \/ ProcessAllAccountsInMode
    \/ ProcessSingleAccount
    \/ ProcessFolderEmails
    \/ CleanupOrphanedFolders
    \/ RunReturns
    \/ CallFindAndCleanupFolderOrphans

InitSync == Init /\ autoResolve

SpecSync == InitSync /\ [][NextSync]_vars

(***************************************************************************)
(* cleanup_stale_registrations step by step, called by the workers over a  *)
(* lease table left by earlier runs.  Every item the coordinator writes    *)
(* carries a last_heartbeat.                                               *)
(***************************************************************************)

\* Heartbeats of the items of the table, against a clock at MaxTime: older than
\* the threshold, exactly at the threshold, newer, and not a timestamp.
LeftHeartbeats == {0, MaxTime - StaleSeconds, MaxTime, Unparsable}

\* Lease tables with at most one item per key.
LeftTables ==
    LET keys == {<<"SYNC_JOB", None>>} \cup {<<"CONTAINER", w>> : w \in Workers}
        item(k, h) == IF k[1] = "SYNC_JOB" THEN [SyncJobItem(1, 1, 0) EXCEPT !.hb = h]
                      ELSE [ContainerItem(1, k[2], 0) EXCEPT !.hb = h]
    IN  UNION {{ {item(k, f[k]) : k \in K} : f \in [K -> LeftHeartbeats] } :
                 K \in SUBSET keys}

\* The scan and the loop that picks the stale items.
ScanStale(w) ==
    /\ reap[w].pc = "idle"
    /\ reap' = [reap EXCEPT ![w] = [pc |-> "deleting",
                                    stale_items |-> {r \in lease : IsReapable(r, now)},
                                    asked |-> {}]]
    /\ UNCHANGED <<leaseVars, svcVars, workerVars, batchVars, syncVars, lease0, unitVars>>

\* One delete_item of the loop over stale_items: by key, without condition, so
\* that deleting an item that is gone already succeeds.
DeleteStale(w) ==
    /\ reap[w].pc = "deleting"
    /\ \E r \in reap[w].stale_items :
          /\ lease' = DeleteItem(lease, ItemKey(r))
          /\ reap' = [reap EXCEPT ![w].stale_items = @ \ {r},
                                  ![w].asked = @ \cup {r}]
    /\ UNCHANGED <<now, autoResolve, faults, reaped, svcVars, workerVars, batchVars,
                   syncVars, lease0, unitVars>>

\* cleanup_stale_registrations returns.
CleanupReturns(w) ==
    /\ reap[w].pc = "deleting"
    /\ reap[w].stale_items = {}
    /\ reap' = [reap EXCEPT ![w].pc = "done"]
    /\ UNCHANGED <<leaseVars, svcVars, workerVars, batchVars, syncVars, lease0, unitVars>>

NextReap == \E w \in Workers : ScanStale(w) \/ DeleteStale(w) \/ CleanupReturns(w)

InitReap ==
    /\ now = MaxTime
    /\ autoResolve = TRUE
    /\ lease \in LeftTables
    /\ lease0 = lease
    /\ svcRunning = None
    /\ svcStarted = 1
    /\ stopsBy = {}
    /\ faults = 0
    /\ reaped = {}
    /\ pc = [w \in Workers |-> "reap"]
    /\ sjid = [w \in Workers |-> None]
    /\ attempt = [w \in Workers |-> 0]
    /\ starts = [w \in Workers |-> 0]
    /\ cur = [w \in Workers |-> None]
    /\ owner = [w \in Workers |-> FALSE]
    /\ qbJob = [w \in Workers |-> None]
    /\ qbStarted = [w \in Workers |-> FALSE]
    /\ hbThread = [w \in Workers |-> FALSE]
    /\ path = [w \in Workers |-> "none"]
    /\ sawEmpty = [w \in Workers |-> FALSE]
    /\ faulted = [w \in Workers |-> FALSE]
    /\ tracker = {}
    /\ epStarted = FALSE
    /\ epc = "idle"
    /\ folders = 0
    /\ batch = NoBatch
    /\ last = NoCall
    /\ mailbox = {}
    /\ index = {}
    /\ spc = "idle"
    /\ mode = "none"
    /\ sync = NoReconcile
    /\ reap = [w \in Workers |-> NoCleanup]
    /\ client = NoClient
    /\ InitThreads
    /\ walk = NoWalk
    /\ split = NoSplit

SpecReap == InitReap /\ [][NextReap]_vars

(***************************************************************************)
(* Properties of the coordination protocol.                                *)
(***************************************************************************)

\* C1: when the workers race start_or_join_sync_job against an empty lease table
\* (each of them queried the table while it was empty, no lease-store call failed,
\* each of them came back with a job id and none has released yet), exactly one
\* sync job was started at the index service and all workers hold the same job id.
C1_OneJobStarted ==
    (\A w \in Workers : pc[w] = "working" /\ sawEmpty[w] /\ ~faulted[w])
        => /\ svcStarted = 1
           /\ \A v, w \in Workers : sjid[v] = sjid[w]

\* C2: a worker that sends a stop request from stop_sync_job is the owner of the
\* sync job (is_sync_job_owner) when it sends it.
C2_NonOwnerNeverStops ==
    [][\A w \in Workers : (w \in stopsBy' /\ w \notin stopsBy) => owner[w]]_vars

OtherLiveWorkers(w) == {r \in ActiveContainers(lease, cur[w], now) : r.who # w}

\* C3: the owner's release.  When the owner looks for remaining workers and a live
\* CONTAINER item of another worker exists for the job, it sends no stop request,
\* the SYNC_JOB items stay and it gives up ownership; when no live CONTAINER item
\* exists it goes on to send the stop request, and then to delete the SYNC_JOB item
\* (unless the lease store refuses the delete).
C3_OwnerRelease ==
    [][\A w \in Workers :
        /\ (pc[w] = "relcheck" /\ pc'[w] # "relcheck" /\ OtherLiveWorkers(w) # {})
              => /\ stopsBy' = stopsBy
                 /\ svcRunning' = svcRunning
                 /\ SyncJobs(lease') = SyncJobs(lease)
                 /\ pc'[w] = "exit0"
                 /\ ~owner'[w]
        /\ (pc[w] = "relcheck" /\ pc'[w] # "relcheck"
                /\ ActiveContainers(lease, cur[w], now) = {})
              => (pc'[w] = "relstop" \/ w \in stopsBy')
        /\ (pc[w] = "relstop" /\ pc'[w] # "relstop")
              => (w \in stopsBy' /\ svcRunning' = None)
        /\ (pc[w] = "relunreg" /\ pc'[w] # "relunreg" /\ faults' = faults)
              => ~\E r \in SyncJobs(lease') : r.job = cur[w]
      ]_vars

\* C4: (a) cleanup_stale_registrations, when the store answers, deletes every
\* SYNC_JOB item whose last heartbeat is more than 600 s old; (b) a
\* start_or_join_sync_job that then finds no live SYNC_JOB item takes the start
\* path; (c) a job started on that path has an id no SYNC_JOB item carries, and
\* registering it, when the store answers, creates the SYNC_JOB item with the
\* caller as owner.
C4_StaleReclaim ==
    [][\A w \in Workers :
        /\ (pc[w] = "reap" /\ pc'[w] = "getactive" /\ faults' = faults)
              => \A r \in SyncJobs(lease) :
                    now - r.hb > StaleSeconds => (r \notin lease' /\ r.job \in reaped')
        /\ (pc[w] = "getactive" /\ pc'[w] # "getactive" /\ faults' = faults
                /\ \A r \in SyncJobs(lease) : ~IsLive(r, now))
              => (pc'[w] = "hasrun" /\ path'[w] = "start")
        /\ (pc[w] \in {"start", "retry"} /\ pc'[w] = "regjob")
              => /\ sjid'[w] > svcStarted
                 /\ ~\E r \in SyncJobs(lease') : r.job = sjid'[w]
        /\ (pc[w] = "regjob" /\ pc'[w] = "regcont" /\ faults' = faults
                /\ ~\E r \in SyncJobs(lease) : r.job = sjid[w])
              => /\ SyncJobItem(sjid[w], w, now) \in lease'
                 /\ owner'[w]
                 /\ cur'[w] = sjid[w]
      ]_vars

\* A worker stopped without releasing, its SYNC_JOB item went stale and was deleted
\* by another worker's cleanup, and that worker now owns the item of a newer job.
C4_Witness ==
    \E v, w \in Workers :
        /\ v # w
        /\ pc[v] = "exit1" /\ owner[v] /\ cur[v] \in reaped
        /\ path[w] = "start" /\ owner[w] /\ cur[w] > cur[v]
        /\ \E r \in SyncJobs(lease) : r.job = cur[w] /\ r.who = w /\ IsLive(r, now)
        /\ ~\E r \in SyncJobs(lease) : r.job = cur[v]

\* C5: join path.  When start_or_join_sync_job finds a live SYNC_JOB item it goes on
\* to register under that job's id; on that path no start request is sent, the
\* index service and the SYNC_JOB items are left alone, the caller is not owner,
\* and when the store accepts the write the caller's CONTAINER item exists under
\* that id and that id is what the call returns.
C5_JoinPath ==
    [][\A w \in Workers :
        /\ (pc[w] = "getactive" /\ pc'[w] # "getactive" /\ faults' = faults
                /\ \E r \in SyncJobs(lease) : IsLive(r, now))
              => /\ pc'[w] = "join"
                 /\ \E r \in SyncJobs(lease) : IsLive(r, now) /\ r.job = sjid'[w]
                 /\ starts'[w] = starts[w]
                 /\ svcVars' = svcVars
                 /\ ~owner'[w]
        /\ (pc[w] = "join" /\ pc'[w] # "join")
              => /\ starts'[w] = starts[w]
                 /\ svcVars' = svcVars
                 /\ SyncJobs(lease') = SyncJobs(lease)
                 /\ ~owner'[w]
                 /\ faults' = faults =>
                        /\ pc'[w] = "working"
                        /\ sjid'[w] = sjid[w]
                        /\ cur'[w] = sjid[w]
                        /\ \E r \in Containers(lease', sjid[w]) : r.who = w /\ r.hb = now
      ]_vars

\* A worker joined the live job of another worker and is processing.
C5_Witness ==
    \E w \in Workers :
        /\ path[w] = "join" /\ pc[w] = "working" /\ starts[w] = 0 /\ ~owner[w]
        /\ \E r \in Containers(lease, sjid[w]) : r.who = w
        /\ \E r \in SyncJobs(lease) : r.job = sjid[w] /\ r.who # w

(***************************************************************************)
(* Properties of batch submission and tracking (under SpecBatch).          *)
(***************************************************************************)

StatusStored(i) == {r.status : r \in {x \in tracker : x.email_id = i}}

\* C6: after a _submit_document_batch call whose batch_put_document call was
\* accepted with the set F of documents reported failed, every email of the batch
\* whose record the tracking table stored has status failed if it is in F or had no
\* document and processed otherwise; and when the tracking table refused no write,
\* every email of the batch has its record stored.
C6_PerDocumentStatus ==
    last.outcome = "accepted" =>
        /\ \A i \in last.stored :
              StatusStored(i) = {IF i \in last.failed \/ i \notin last.docs
                                 THEN "failed" ELSE "processed"}
        /\ last.fault = "none" => last.stored = last.ids

\* An accepted batch with a failed document, a delivered document and an email
\* without document, all three recorded.
C6_Witness ==
    /\ last.outcome = "accepted"
    /\ last.failed # {}
    /\ last.docs \ last.failed # {}
    /\ last.ids \ last.docs # {}
    /\ last.stored = last.ids
    /\ \E i \in last.failed : StatusStored(i) = {"failed"}
    /\ \E i \in last.docs \ last.failed : StatusStored(i) = {"processed"}

\* C7: _submit_document_batch returns False whenever batch_put_document reported
\* at least one of the submitted documents as failed.
C7_FalseOnFailedDocument ==
    (last.outcome = "accepted" /\ last.failed # {}) => ~last.ret

\* C8: when the batch_put_documents call failed as a whole (exception of the
\* client, HTTP status other than 200, no started sync job), every record written
\* for the batch has status failed.
C8_OutrightFailureMarksFailed ==
    last.outcome \in {"nojob", "transport", "http"} =>
        \A i \in last.stored : StatusStored(i) = {"failed"}

\* C9: in every _submit_document_batch call with emails to mark,
\* mark_email_processed is called for each of them at least once, whatever
\* batch_put_documents answered; and when the marking pass of the finally block
\* raised, each of them was taken up again by _mark_emails_individually.
C9_EveryItemAttempted ==
    last.ids # {} =>
        /\ \A i \in last.ids : last.tries[i] >= 1
        /\ last.raised => last.individually = last.ids

\* The whole call failed, the marking pass raised part-way and every email of the
\* batch was retried individually.
C9_Witness ==
    /\ last.outcome = "transport"
    /\ Cardinality(last.ids) >= 2
    /\ last.raised
    /\ last.individually = last.ids
    /\ \E i \in last.ids : last.tries[i] = 1
    /\ \E i \in last.ids : last.tries[i] >= 2

C11_ReconcileDeletesOrphans ==
    (sync.called /\ sync.via = "call" /\ sync.sync_mode = "delta" /\ sync.enumerated
        /\ sync.started /\ sync.outcome = "accepted" /\ sync.failed = {})
      => LET orphaned_ids == sync.tracked \ sync.live
         IN  /\ sync.indexDeletes = orphaned_ids
             /\ sync.trackerDeletes = orphaned_ids
             /\ index = sync.indexBefore \ orphaned_ids
             /\ tracker = {r \in sync.trackerBefore : r.email_id \notin orphaned_ids}
             /\ sync.ret = Cardinality(orphaned_ids)

\* C12: process_folder_emails in delta mode, for a folder with live ids L (not
\* empty) and tracked ids T: the emails of L \ T, and no others, are handed to
\* _submit_document_batch; the delete of the orphan cleanup names T \ L; the
\* tracking records of L \cap T stay as they are and none of their documents is
\* deleted.
C12_DeltaFolder ==
    [][(spc = "folder" /\ spc' # "folder" /\ mode = "delta" /\ mailbox # {})
         => LET L == mailbox
                T == GetProcessedEmailIdsForFolder(tracker, <<FolderNames[1]>>).ids
            IN  /\ last'.docs = L \ T
                /\ sync'.called /\ sync'.via = "folder"
                /\ sync'.indexDeletes = T \ L
                /\ \A i \in L \cap T :
                      /\ {r \in tracker' : r.email_id = i} = {r \in tracker : r.email_id = i}
                      /\ i \in index => i \in index'
      ]_vars

\* C13: when the iteration over the folder's items raises inside
\* _find_and_cleanup_folder_orphans, the call sends no delete to the index, deletes
\* no tracking record, leaves both as they were and returns 0.
C13_EnumerationErrorSkips ==
    (sync.called /\ sync.raised)
      => /\ sync.indexDeletes = {}
         /\ sync.trackerDeletes = {}
         /\ sync.ret = 0
         /\ index = sync.indexBefore
         /\ tracker = sync.trackerBefore

\* The iteration raised in a delta-mode call under a started job, with tracked ids
\* whose documents are in the index.
C13_Witness ==
    /\ sync.called /\ sync.raised
    /\ sync.sync_mode = "delta"
    /\ sync.started /\ sync.outcome = "accepted"
    /\ sync.tracked \cap sync.indexBefore # {}
    /\ sync.tracked \cap index # {}

\* C14: process_folder_emails in delta mode for a folder that holds no email
\* while the tracking table holds ids for it: afterwards none of those ids has a
\* tracking record or a document in the index.
C14_EmptyFolderCleanedUp ==
    [][(spc = "folder" /\ spc' # "folder" /\ mode = "delta" /\ mailbox = {})
         => \A i \in GetProcessedEmailIdsForFolder(tracker, <<FolderNames[1]>>).ids :
               /\ {r \in tracker' : r.email_id = i} = {}
               /\ i \notin index'
      ]_vars

\* C15: no orphan cleanup deletes anything in full mode.  A
\* _find_and_cleanup_folder_orphans call with sync_mode 'full' sends no delete to
\* the index, deletes no tracking record and returns 0; the call a full-mode run
\* makes for its folder is such a call; and a full-mode run never enters
\* _cleanup_orphaned_folders.
C15_FullModeNoOrphanCleanup ==
    /\ (sync.called /\ sync.sync_mode = "full")
          => /\ sync.indexDeletes = {}
             /\ sync.trackerDeletes = {}
             /\ sync.ret = 0
             /\ sync.via = "call" => (index = sync.indexBefore
                                        /\ tracker = sync.trackerBefore)
    /\ (mode = "full" /\ sync.called /\ sync.via = "folder") => sync.sync_mode = "full"
    /\ mode = "full" => spc # "orphans"

\* A full-mode run has processed its folder, the cleanup was called for it, and
\* the index holds a document whose email is no longer in the folder.
C15_Witness ==
    /\ mode = "full" /\ spc = "done"
    /\ sync.called /\ sync.via = "folder" /\ sync.sync_mode = "full"
    /\ sync.indexBefore \ mailbox # {}
    /\ last.stored # {}

\* C16: when a full-mode run has completed for the account, the index holds no
\* document, and the tracking table no record, of an email the account's folder
\* no longer holds.
C16_FullRunRemovesOrphans ==
    (mode = "full" /\ spc = "done")
      => /\ index \subseteq mailbox
         /\ {r.email_id : r \in {x \in tracker : x.account_email = Account}}
               \subseteq mailbox

(***************************************************************************)
(* Properties of the heartbeat, of the release and of the stale cleanup.   *)
(***************************************************************************)

\* C17: while the owner of a sync job is processing and its heartbeat thread runs
\* (and has beaten for the current time), the SYNC_JOB item of its job is in the
\* lease table with a heartbeat less than 600 s old, so that neither
\* cleanup_stale_registrations nor another worker's get_active_sync_job takes it
\* for stale.  No lease-store call has failed.
C17_OwnerJobKeptFresh ==
    \A w \in Workers :
        (pc[w] = "working" /\ owner[w] /\ hbThread[w] /\ ~HeartbeatDue(w) /\ faults = 0)
          => \E r \in SyncJobs(lease) : r.job = cur[w] /\ r.who = w /\ IsLive(r, now)

\* C18: every worker that came back from start_or_join_sync_job with a job id and
\* is still processing has a running heartbeat thread, and its CONTAINER item for
\* the job is in the lease table with a heartbeat less than 600 s old.  No
\* lease-store call has failed, and every running heartbeat thread has beaten for
\* the current time.
C18_WorkerRecordKeptFresh ==
    \A w \in Workers :
        (pc[w] = "working" /\ faults = 0 /\ \A v \in Workers : ~HeartbeatDue(v))
          => /\ hbThread[w]
             /\ \E r \in Containers(lease, cur[w]) : r.who = w /\ IsLive(r, now)

\* C19: when a worker's run has ended with stop_sync_job and no lease-store call
\* has failed, the lease table holds no CONTAINER item of that worker, whether the
\* worker started the job or joined it.
C19_ReleasedWorkerHasNoRecord ==
    \A w \in Workers :
        (pc[w] = "exit0" /\ faults = 0)
          => ~\E r \in lease : r.kind = "CONTAINER" /\ r.who = w

MaxJobs == 2

\* Error codes with which _direct_stop_sync_job takes the job for stopped.
AlreadyStopped == {"ResourceNotFoundException", "ValidationException"}

\* What stop_data_source_sync_job can answer: "stopped" only when a job runs,
\* an already-stopped code only when none does, another ClientError or a
\* transport failure at any time.
StopAnswers(running) ==
    (IF running = None THEN AlreadyStopped ELSE {"stopped"})
        \cup {"AccessDeniedException", "EndpointConnectionError"}

\* What list_data_source_sync_jobs can do: answer, raise ClientError, or fail in
\* the transport.
ListOutcomes == {"ok", "ThrottlingException", "EndpointConnectionError"}

\* Faulty variant: only the answer "stopped" counts as a stop.
DirectStopCallStrict(c, answer) ==
    IF answer = "stopped"
    THEN [client |-> [c EXCEPT !.job = None, !.started = FALSE, !.running = None],
          ret |-> TRUE]
    ELSE [client |-> c, ret |-> FALSE]

\* _direct_stop_sync_job.
DirectStopCall(c, answer) ==
    IF answer = "stopped"
    THEN [client |-> [c EXCEPT !.job = None, !.started = FALSE, !.running = None],
          ret |-> TRUE]
    ELSE IF answer \in AlreadyStopped
    THEN [client |-> [c EXCEPT !.job = None, !.started = FALSE], ret |-> TRUE]
    ELSE [client |-> c, ret |-> FALSE]

\* stop_sync_job.  coord is what stop_sync_job_if_owner does: "absent" (no
\* coordinator set), "True" without a stop request (not the owner, or other
\* containers active), "owner" (it calls _direct_stop_sync_job itself and passes
\* the result on), "False" (an exception inside the coordinator).  After False
\* stop_sync_job calls _direct_stop_sync_job, which gets answer2.
StopSyncJobCall(c, coord, answer, answer2) ==
    IF c.job = None
    THEN [client |-> c, ret |-> TRUE, asked |-> "none"]
    ELSE IF coord = "absent"
    THEN DirectStopCall(c, answer) @@ [asked |-> answer]
    ELSE IF coord = "True"
    THEN [client |-> [c EXCEPT !.job = None, !.started = FALSE], ret |-> TRUE,
          asked |-> "none"]
    ELSE IF coord = "False"
    THEN DirectStopCall(c, answer2) @@ [asked |-> answer2]
    ELSE LET first == DirectStopCall(c, answer)
         IN  IF first.ret
             THEN [client |-> [first.client EXCEPT !.job = None, !.started = FALSE],
                   ret |-> TRUE, asked |-> answer]
             ELSE DirectStopCall(first.client, answer2) @@ [asked |-> answer2]

\* has_running_sync_jobs: the answer as a string.
HasRunningSyncJobsCall(c, outcome) ==
    IF outcome = "ok"
    THEN (IF c.running # None THEN "True" ELSE "False")
    ELSE "False"

\* get_sync_job_status: the status of the client's job in the history, "None"
\* when the client has no job.
GetSyncJobStatusCall(c, outcome) ==
    IF c.job = None THEN "None"
    ELSE IF outcome = "ok"
    THEN (IF c.running = c.job THEN "SYNCING" ELSE "STOPPED")
    ELSE "None"

\* The last two stop_sync_job calls since the job was started.
Remember(stops, e) ==
    IF Len(stops) = 2 THEN <<stops[2], e>> ELSE Append(stops, e)

\* start_sync_job, the first request accepted.
ClientStartSyncJob ==
    /\ client.job = None /\ client.running = None
    /\ client.issued < MaxJobs
    /\ client' = [client EXCEPT !.job = client.issued + 1, !.started = TRUE,
                                !.running = client.issued + 1,
                                !.issued = client.issued + 1, !.stops = <<>>]
    /\ UNCHANGED <<leaseVars, svcVars, workerVars, batchVars, syncVars, reapVars, split, threadVars, walk>>

\* The running job ends at the service: it completes, or another worker's
\* _stop_existing_sync_jobs stops it.
ServiceJobEnds ==
    /\ client.running # None
    /\ client' = [client EXCEPT !.running = None]
    /\ UNCHANGED <<leaseVars, svcVars, workerVars, batchVars, syncVars, reapVars, split, threadVars, walk>>

ClientStopSyncJob ==
    /\ \E coord \in {"absent", "True", "owner", "False"} :
       \E answer \in StopAnswers(client.running) :
       \E answer2 \in StopAnswers(client.running) :
        LET r == StopSyncJobCall(client, coord, answer, answer2)
            e == [job |-> client.job, coord |-> coord, asked |-> r.asked,
                  ret |-> r.ret, jobAfter |-> r.client.job,
                  startedAfter |-> r.client.started]
        IN  client' = [r.client EXCEPT !.stops = Remember(client.stops, e)]
    /\ UNCHANGED <<leaseVars, svcVars, workerVars, batchVars, syncVars, reapVars, split, threadVars, walk>>

ClientHasRunningSyncJobs ==
    /\ \E outcome \in ListOutcomes :
        client' = [client EXCEPT !.probe =
                      [op |-> "has_running_sync_jobs", outcome |-> outcome,
                       ret |-> HasRunningSyncJobsCall(client, outcome)]]
    /\ UNCHANGED <<leaseVars, svcVars, workerVars, batchVars, syncVars, reapVars, split, threadVars, walk>>

ClientGetSyncJobStatus ==
    /\ \E outcome \in ListOutcomes :
        client' = [client EXCEPT !.probe =
                      [op |-> "get_sync_job_status", outcome |-> outcome,
                       ret |-> GetSyncJobStatusCall(client, outcome)]]
    /\ UNCHANGED <<leaseVars, svcVars, workerVars, batchVars, syncVars, reapVars, split, threadVars, walk>>

NextClient ==
    \/ ClientStartSyncJob
    \/ ServiceJobEnds
    \/ ClientStopSyncJob
    \/ ClientHasRunningSyncJobs
    \/ ClientGetSyncJobStatus

SpecClient == Init /\ [][NextClient]_vars

(***************************************************************************)
(* Threaded mode: _process_emails_threaded hands the batches of one folder  *)
(* to a pool of max_worker_threads threads running _process_email_batch.    *)
(***************************************************************************)

\* config.max_worker_threads, config.thread_batch_size and
\* config.document_batch_size of the run; as with the defaults (4, 50, 10) a
\* thread batch is larger than a document batch.
MaxWorkerThreads == 2
ThreadBatchSize == 2
DocumentBatchSize == 1

\* batches[c]: the c-th slice of thread_batch_size items of items_to_process.
Rank(i, ids) == Cardinality({x \in ids : x <= i})
Chunk(ids, c) == {i \in ids : (Rank(i, ids) - 1) \div ThreadBatchSize + 1 = c}
NumChunks(ids) == (Cardinality(ids) + ThreadBatchSize - 1) \div ThreadBatchSize

\* "with self._batch_lock": a task enters when no task holds the lock.
\* Faulty variant: it enters at once.
CanEnterSubmitUnguarded(c) == TRUE

CanEnterSubmit(c) == batch_lock = None

\* Positions of a task between acquiring and releasing _batch_lock.
InSubmit == {"put", "count_read", "count_write", "mark"}

\* _process_emails_threaded up to the submission of the tasks: the items of the
\* folder (each counted as attempted by the calling thread), the items a document
\* can be created for, the documents the index service rejects, and the items
\* the tracking table holds a failed record of.
ProcessEmailsThreaded ==
    /\ pool.state = "idle"
    /\ \E items \in SUBSET Items \ {{}} :
       \E made \in SUBSET items :
       \E rejected \in SUBSET made :
       \E prior \in SUBSET items :
       \E given \in BOOLEAN :
        /\ pool' = [state |-> "running", items |-> items, made |-> made,
                    rejected |-> rejected,
                    before |-> {[email_id |-> i, folder_name |-> FolderNames[1],
                                 account_email |-> Account, status |-> "failed",
                                 attempt_count |-> 1] : i \in prior},
                    order |-> <<>>]
        /\ tpc' = [c \in Items |-> IF c <= NumChunks(items) THEN "queued" ELSE "none"]
        /\ emails_attempted_count' = emails_attempted_count + Cardinality(items)
        /\ epStarted' = given
        /\ tracker' = pool'.before
    /\ UNCHANGED <<leaseVars, svcVars, workerVars, syncVars, reapVars, split, client, walk,
                   epc, folders, batch, last, treg, batch_lock, counter_lock,
                   emails_processed_count, applied>>

\* A pool thread takes a task: _process_email_batch begins.
TaskStart(c) ==
    /\ tpc[c] = "queued"
    /\ Cardinality({d \in Items : tpc[d] \notin {"none", "queued", "done"}})
          < MaxWorkerThreads
    /\ LET n == Cardinality(Chunk(pool.items, c) \cap pool.made)
       IN  /\ treg' = [treg EXCEPT ![c] = [left |-> n, seen |-> 0, failed |-> {}]]
           /\ tpc' = [tpc EXCEPT ![c] = IF n = 0 THEN "wait" ELSE "build"]
    /\ UNCHANGED <<leaseVars, svcVars, workerVars, batchVars, syncVars, reapVars, split,
                   client, walk, pool, batch_lock, counter_lock, emails_processed_count,
                   emails_attempted_count, applied>>

\* _increment_processed_count for a document created: the thread takes
\* _counter_lock and reads emails_processed_count.
IncrementRead(c) ==
    /\ tpc[c] = "build"
    /\ counter_lock = None
    /\ counter_lock' = c
    /\ treg' = [treg EXCEPT ![c].seen = emails_processed_count]
    /\ tpc' = [tpc EXCEPT ![c] = "inc"]
    /\ UNCHANGED <<leaseVars, svcVars, workerVars, batchVars, syncVars, reapVars, split,
                   client, walk, pool, batch_lock, emails_processed_count,
                   emails_attempted_count, applied>>

\* It stores the sum and releases _counter_lock.
IncrementWrite(c) ==
    /\ tpc[c] = "inc"
    /\ emails_processed_count' = treg[c].seen + 1
    /\ applied' = applied + 1
    /\ counter_lock' = None
    /\ treg' = [treg EXCEPT ![c].left = @ - 1]
    /\ tpc' = [tpc EXCEPT ![c] = IF treg[c].left = 1 THEN "wait" ELSE "build"]
    /\ UNCHANGED <<leaseVars, svcVars, workerVars, batchVars, syncVars, reapVars, split,
                   client, walk, pool, batch_lock, emails_attempted_count>>

\* with self._batch_lock: _submit_document_batch is entered.
AcquireBatchLock(c) ==
    /\ tpc[c] = "wait"
    /\ CanEnterSubmit(c)
    /\ batch_lock' = c
    /\ tpc' = [tpc EXCEPT ![c] = "put"]
    /\ UNCHANGED <<leaseVars, svcVars, workerVars, batchVars, syncVars, reapVars, split,
                   client, walk, pool, treg, counter_lock, emails_processed_count,
                   emails_attempted_count, applied>>

\* batch_put_documents(documents) of the task; with no document the call is
\* skipped (batch_size == 0).
TaskBatchPut(c) ==
    /\ tpc[c] = "put"
    /\ LET docs == Chunk(pool.items, c) \cap pool.made
           put == BatchPutDocuments(docs, epStarted, "accepted", docs \cap pool.rejected)
       IN  /\ treg' = [treg EXCEPT ![c].failed = put.failed]
           /\ tpc' = [tpc EXCEPT ![c] = IF docs = {} THEN "mark" ELSE "count_read"]
    /\ UNCHANGED <<leaseVars, svcVars, workerVars, batchVars, syncVars, reapVars, split,
                   client, walk, pool, batch_lock, counter_lock, emails_processed_count,
                   emails_attempted_count, applied>>

\* self.emails_processed_count += successful_count, the read: _counter_lock is
\* not taken.
CountRead(c) ==
    /\ tpc[c] = "count_read"
    /\ treg' = [treg EXCEPT ![c].seen = emails_processed_count]
    /\ tpc' = [tpc EXCEPT ![c] = "count_write"]
    /\ UNCHANGED <<leaseVars, svcVars, workerVars, batchVars, syncVars, reapVars, split,
                   client, walk, pool, batch_lock, counter_lock, emails_processed_count,
                   emails_attempted_count, applied>>

\* ... and the store.
CountWrite(c) ==
    /\ tpc[c] = "count_write"
    /\ LET docs == Chunk(pool.items, c) \cap pool.made
           successful_count == Cardinality(docs) - Cardinality(treg[c].failed)
       IN  /\ emails_processed_count' = treg[c].seen + successful_count
           /\ applied' = applied + successful_count
    /\ tpc' = [tpc EXCEPT ![c] = "mark"]
    /\ UNCHANGED <<leaseVars, svcVars, workerVars, batchVars, syncVars, reapVars, split,
                   client, walk, pool, treg, batch_lock, counter_lock,
                   emails_attempted_count>>

\* What _submit_document_batch leaves in the tracking table for the task.
TaskTracker(T, c, items, made, rejected, started) ==
    LET docs == Chunk(items, c) \cap made
    IN  SubmitDocumentBatchResult(T, started,
            EmailsToMark(Chunk(items, c), FolderNames[1], docs), docs,
            "accepted", docs \cap rejected, NoTrackerFault).st.tracker

\* The marking of the task's emails; _submit_document_batch returns and
\* _batch_lock is released.
TaskMark(c) ==
    /\ tpc[c] = "mark"
    /\ tracker' = TaskTracker(tracker, c, pool.items, pool.made, pool.rejected,
                              epStarted)
    /\ batch_lock' = IF batch_lock = c THEN None ELSE batch_lock
    /\ tpc' = [tpc EXCEPT ![c] = "done"]
    /\ pool' = [pool EXCEPT !.order = Append(@, c)]
    /\ UNCHANGED <<leaseVars, svcVars, workerVars, syncVars, reapVars, split, client, walk,
                   epStarted, epc, folders, batch, last, treg, counter_lock,
                   emails_processed_count, emails_attempted_count, applied>>

\* as_completed has yielded every future: _process_emails_threaded returns.
ThreadedReturns ==
    /\ pool.state = "running"
    /\ \A c \in Items : tpc[c] \in {"none", "done"}
    /\ pool' = [pool EXCEPT !.state = "returned"]
    /\ UNCHANGED <<leaseVars, svcVars, workerVars, batchVars, syncVars, reapVars, split,
                   client, walk, tpc, treg, batch_lock, counter_lock,
                   emails_processed_count, emails_attempted_count, applied>>

NextThreads ==
    \/ ProcessEmailsThreaded
    \/ \E c \in Items :
          \/ TaskStart(c)
          \/ IncrementRead(c)
          \/ IncrementWrite(c)
          \/ AcquireBatchLock(c)
          \/ TaskBatchPut(c)
          \/ CountRead(c)
          \/ CountWrite(c)
          \/ TaskMark(c)
    \/ ThreadedReturns

InitThreadsRun == Init /\ autoResolve

SpecThreads == InitThreadsRun /\ [][NextThreads]_vars

\* The tracking table after the tasks 1..n ran one after the other.
RECURSIVE TrackerInOrder(_, _, _, _, _, _)
TrackerInOrder(T, n, items, made, rejected, started) ==
    IF n = 0 THEN T
    ELSE TaskTracker(TrackerInOrder(T, n - 1, items, made, rejected, started),
                     n, items, made, rejected, started)

(***************************************************************************)
(* process_account_folders: the walk over the folder tree of one account.   *)
(***************************************************************************)

\* Folders of the account's tree; folder 1 is folder_root.
MaxTreeFolders == 4
TreeFolders == 1..MaxTreeFolders

\* The trees: parent[f] of every folder but the root, children in the order of
\* their numbers.
Trees == {p \in [TreeFolders -> 0..MaxTreeFolders] :
             p[1] = 0 /\ \A f \in TreeFolders \ {1} : p[f] >= 1 /\ p[f] < f}

\* The order in which process_folder_recursive reaches the folders: a folder, then
\* each child with its subtree.
RECURSIVE Preorder(_, _)
RECURSIVE PreorderAll(_, _)
Preorder(p, f) ==
    <<f>> \o PreorderAll(p, {c \in TreeFolders : p[c] = f})

PreorderAll(p, cs) ==
    IF cs = {} THEN <<>>
    ELSE LET c == CHOOSE x \in cs : \A y \in cs : x <= y
         IN  Preorder(p, c) \o PreorderAll(p, cs \ {c})

\* How process_folder_emails can fail: reading the folder at the server raises,
\* or (delta mode) reading the tracked ids of the folder raises.
FolderFailures(sync_mode) ==
    IF sync_mode = "delta" THEN {"enumerate", "tracked_ids"} ELSE {"enumerate"}

\* "if not success: return False" after process_folder_emails.
AbortsWalk(success) == ~success

\* process_single_account calls process_account_folders for the tree.
ProcessAccountFolders ==
    /\ walk.state = "idle"
    /\ \E p \in Trees : \E sync_mode \in {"delta", "full"} :
          walk' = [state |-> "walking", sync_mode |-> sync_mode, parent |-> p,
                   visited |-> <<>>, failed |-> None, cause |-> "none"]
    /\ UNCHANGED <<leaseVars, svcVars, workerVars, batchVars, syncVars, reapVars, split,
                   client, threadVars>>

\* process_folder_recursive reaches the next folder: process_folder_emails
\* succeeds or fails; after the last folder the walk returns True.
ProcessFolderRecursive ==
    /\ walk.state = "walking"
    /\ LET order == Preorder(walk.parent, 1)
           f == order[Len(walk.visited) + 1]
       IN  \E cause \in {"none"} \cup FolderFailures(walk.sync_mode) :
             LET success == cause = "none"
             IN  IF AbortsWalk(success)
                 THEN walk' = [walk EXCEPT !.state = "failed", !.failed = f,
                                           !.visited = Append(@, f), !.cause = cause]
                 ELSE walk' = [walk EXCEPT
                                 !.visited = Append(@, f),
                                 !.failed = IF success THEN @ ELSE f,
                                 !.cause = IF success THEN @ ELSE cause,
                                 !.state = IF Len(walk.visited) + 1 = Len(order)
                                           THEN "done" ELSE "walking"]
    /\ UNCHANGED <<leaseVars, svcVars, workerVars, batchVars, syncVars, reapVars, split,
                   client, threadVars>>

NextTree ==
    \/ ProcessAccountFolders
    \/ ProcessFolderRecursive

InitTree == Init /\ autoResolve

SpecTree == InitTree /\ [][NextTree]_vars

(***************************************************************************)
(* Runs of one container while another container, assigned another account, *)
(* writes to the same tracking table and index.                             *)
(***************************************************************************)

\* The other container delivers the document of an email of its account and
\* marks the email processed.
OtherContainerProcesses ==
    /\ OtherItem \notin index
    /\ index' = index \cup {OtherItem}
    /\ tracker' = MarkEmailProcessed(tracker,
                      [email_id |-> OtherItem, folder_name |-> FolderNames[1],
                       account_email |-> OtherAccount], "processed")
    /\ UNCHANGED <<leaseVars, svcVars, workerVars, reapVars, unitVars, epStarted, epc,
                   folders, batch, last, mailbox, spc, mode, sync>>

NextShared ==
    \/ OtherContainerProcesses
    \/ MailboxChange
    \/ ProcessAllAccountsInMode
    \/ ProcessSingleAccount
    \/ ProcessFolderEmails
    \/ CleanupOrphanedFolders
    \/ RunReturns

SpecShared == InitSync /\ [][NextShared]_vars

\* The records and documents of accounts other than account_email.
OtherRecords(T, account_email) == {r \in T : r.account_email # account_email}
OtherDocuments(idx) == idx \ Items

(***************************************************************************)
(* Properties of the start path and of the calls to the index service.     *)
(***************************************************************************)

\* Rounds start_sync_job can still take from where the worker is.
StartMeasure(p, a) ==
    IF p = "start" THEN 2 * MaxConflictRetries + 2
    ELSE IF p = "stopex" THEN 2 * (MaxConflictRetries - a)
    ELSE IF p = "retry" THEN 2 * (MaxConflictRetries - a) - 1
    ELSE 0

\* C21: start_sync_job terminates.  Every step it takes lowers a measure that is
\* never negative; it sends at most 1 + max_sync_conflict_retries start requests,
\* and each retried request comes after a stop-and-wait cycle of its own; the wait
\* loop lists the jobs at most max_wait_time / wait_interval times; and when the
\* last round fails start_sync_job returns None.
C21_StartTerminates ==
    [][\A w \in Workers :
        /\ starts'[w] <= 1 + MaxConflictRetries
        /\ attempt'[w] < MaxConflictRetries
        /\ pc'[w] = "retry" => starts'[w] <= attempt'[w] + 1
        /\ (pc[w] \in {"start", "stopex", "retry"}
                /\ <<pc'[w], attempt'[w], starts'[w]>> # <<pc[w], attempt[w], starts[w]>>)
              => /\ StartMeasure(pc'[w], attempt'[w]) < StartMeasure(pc[w], attempt[w])
                 /\ StartMeasure(pc'[w], attempt'[w]) >= 0
        /\ (pc[w] \in {"stopex", "retry"} /\ attempt[w] = MaxConflictRetries - 1
                /\ pc'[w] \notin {"stopex", "retry", "regjob"})
              => (pc'[w] = "exit1" /\ sjid'[w] = None)
        /\ \A first \in PollAnswers :
              WaitLoop(0, 0, first).polls <= MaxWaitTime \div WaitInterval
      ]_vars

\* A worker whose first start request met a conflict went through every round of
\* the loop, each stop-and-wait cycle timing out, and came back without a job.
C21_Witness ==
    \E w \in Workers :
        /\ pc[w] = "exit1" /\ path[w] = "start" /\ sjid[w] = None
        /\ starts[w] = 1
        /\ attempt[w] = MaxConflictRetries - 1
        /\ svcRunning # None

\* C22: a worker whose attempt to become owner fails is not failed by
\* start_or_join_sync_job: when start_sync_job comes back without a job, or
\* register_sync_job answers False, while a live SYNC_JOB record exists, the worker
\* goes on under the job of that record.
C22_FallbackToJoin ==
    [][\A w \in Workers :
        /\ (pc[w] \in {"hasrun", "start", "stopex", "retry"}
                /\ pc'[w] \notin {"hasrun", "start", "stopex", "retry", "regjob"}
                /\ ActiveSyncJob(lease, now) # None)
              => (pc'[w] = "join" /\ sjid'[w] = ActiveSyncJob(lease, now))
        /\ (pc[w] = "regjob" /\ pc'[w] = "regcont" /\ ~owner'[w]
                /\ ActiveSyncJob(lease, now) # None)
              => sjid'[w] = ActiveSyncJob(lease, now)
      ]_vars

\* C23: stop_sync_job is an idempotent close.  A stop request the service answers
\* with "already stopped / not found" makes the call return True with
\* current_sync_job_id and sync_job_started cleared, and once a stop_sync_job call
\* has returned True the next call in a row returns True as well.
C23_StopIdempotent ==
    /\ \A i \in 1..Len(client.stops) :
          LET e == client.stops[i]
          IN  e.asked \in AlreadyStopped
                => (e.ret /\ e.jobAfter = None /\ ~e.startedAfter)
    /\ (Len(client.stops) = 2 /\ client.stops[1].ret) => client.stops[2].ret

\* The job had ended at the service when stop_sync_job was called: the call
\* took the not-found answer for a stop, and the call after it succeeded too.
C23_Witness ==
    /\ Len(client.stops) = 2
    /\ client.stops[1].job # None
    /\ client.stops[1].asked = "ResourceNotFoundException"
    /\ client.stops[1].ret
    /\ client.stops[2].ret
    /\ client.job = None /\ ~client.started

\* C24: a failed call to the index service is reported as a failure: when the
\* listing fails has_running_sync_jobs does not answer False and
\* get_sync_job_status does not answer None for a client that has a job.
C24_ServiceErrorReported ==
    /\ (client.probe.op = "has_running_sync_jobs" /\ client.probe.outcome # "ok")
          => client.probe.ret # "False"
    /\ (client.probe.op = "get_sync_job_status" /\ client.probe.outcome # "ok"
            /\ client.job # None)
          => client.probe.ret # "None"

\* C25: in threaded mode at most one task at a time is between entering and
\* leaving _submit_document_batch, and that task holds _batch_lock.
C25_OneThreadSubmits ==
    /\ Cardinality({c \in Items : tpc[c] \in InSubmit}) <= 1
    /\ \A c \in Items : tpc[c] \in InSubmit => batch_lock = c

\* One task is sending its documents while another, done with its documents,
\* waits for the lock.
C25_Witness ==
    \E c, d \in Items : c # d /\ tpc[c] = "put" /\ tpc[d] = "wait"

\* C26: no increment of the processed counter is lost: when no thread is in the
\* middle of an update, emails_processed_count is the sum of the increments
\* applied.
C26_NoLostIncrement ==
    (\A c \in Items : tpc[c] \notin {"inc", "count_write"})
        => emails_processed_count = applied

C28_FailureAbortsOnlyFolder ==
    walk.state \in {"failed", "done"}
        => {walk.visited[i] : i \in 1..Len(walk.visited)} = TreeFolders

\* C29: a run that obtained a sync job id and then fails calls stop_sync_job
\* before it exits: from the processing of the accounts the run goes on to
\* stop_sync_job, never straight to the exit.
C29_FailedRunStops ==
    [][\A w \in Workers :
        (pc[w] = "working" /\ sjid[w] # None /\ pc'[w] # "working")
            => pc'[w] = "release"
      ]_vars

\* C30: at every moment the lease table holds at most one live SYNC_JOB record.
C30_OneLiveSyncJob ==
    Cardinality({r \in SyncJobs(lease) : IsLive(r, now)}) <= 1

\* C31: the owner sends no stop request for the job while another worker that
\* got the same job id from start_or_join_sync_job is still processing.
C31_NoStopWhileOthersWork ==
    [][\A w \in Workers :
        (w \in stopsBy' /\ w \notin stopsBy /\ owner[w])
            => \A v \in Workers \ {w} : ~(pc[v] = "working" /\ sjid[v] = sjid[w])
      ]_vars

\* C32: a record the last _submit_document_batch call stored with status
\* processed belongs to a document that a batch_put_document call accepted: the
\* call was sent under a started sync job, came back without transport or HTTP
\* error, and did not report the document as failed.
C32_ProcessedOnlyIfDelivered ==
    \A i \in last.stored :
        "processed" \in StatusStored(i)
            => i \in Delivered(last.docs, epStarted, last.outcome, last.failed)

\* C38: one _submit_document_batch call writes each of its emails to the tracking
\* table exactly once: mark_email_processed is called once per email, whether the
\* batch has documents or not and whether or not the marking pass falls back to
\* _mark_emails_individually.
C38_EachEntryWrittenOnce ==
    \A i \in last.ids : last.tries[i] = 1

\* C33: every batch_put_documents call carries at most document_batch_size
\* documents, in threaded mode as in sequential mode.
C33_BatchPutBounded ==
    \A c \in Items :
        tpc[c] \in {"count_read", "count_write"}
            => Cardinality(Chunk(pool.items, c) \cap pool.made) <= DocumentBatchSize

SpecLive == Spec /\ WF_vars(Next)

\* The owner o released while another worker was registered for its job, the job
\* was left open, and every worker has released since.
LeftOpenByOwner(o) ==
    /\ path[o] = "start" /\ pc[o] = "exit0" /\ o \notin stopsBy
    /\ sjid[o] # None /\ svcRunning = sjid[o]
    /\ \E v \in Workers \ {o} : path[v] = "join" /\ sjid[v] = sjid[o]
    /\ \A v \in Workers : pc[v] = "exit0" /\ ~faulted[v]

\* C35: when the owner released while other workers were registered, so that the
\* external job was left open, then after the last of those workers has released
\* a stop request for the job is eventually sent by one of the workers.
C35_LeftOpenJobStopped ==
    (\E o \in Workers : LeftOpenByOwner(o)) ~> (stopsBy # {})

\* C36: when start_or_join_sync_job answered None after the worker had started
\* an external job, then after the run of that worker has ended the job it
\* started is no longer open and no SYNC_JOB record it created is left.
C36_FailedStartCleansUp ==
    \A w \in Workers :
        (pc[w] = "exit1" /\ ~hbThread[w] /\ sjid[w] = None /\ qbJob[w] # None)
            => /\ svcRunning # qbJob[w]
               /\ ~\E r \in SyncJobs(lease) : r.job = qbJob[w] /\ r.who = w

\* C37: the orphan cleanup removes the tracking record of an email only when the
\* document of that email has left the index, and when a run has ended every
\* document of the account that is in the index has a tracking record.
C37_IndexedDocumentTracked ==
    /\ sync.called => sync.trackerDeletes \cap index = {}
    /\ spc = "done"
         => \A i \in index \cap Items :
              \E r \in tracker : r.email_id = i /\ r.account_email = Account

\* C39: a heartbeat for a CONTAINER item that is not in the lease table leaves
\* the table as it is, so every CONTAINER item of the table was written by
\* register_container and carries all its attributes.
C39_HeartbeatCreatesNothing ==
    [][/\ \A w \in Workers :
            (HeartbeatDue(w) /\ lease' # lease /\ UNCHANGED <<pc, now>>)
                => \E r \in lease : ItemKey(r) = <<"CONTAINER", qbJob[w], w>>
       /\ \A r \in lease' : r.kind = "CONTAINER" => r.full
      ]_vars

(***************************************************************************)
(* Account splitting: get_assigned_accounts, called by each container with  *)
(* its own index on the same configured account list.                       *)
(***************************************************************************)

MaxAccounts == 3
MaxContainers == 3

\* parse_email_addresses keeps the addresses in the configured order and removes
\* no repetition.
AccountNames == {Account, OtherAccount}
AccountLists == UNION {[1..n -> AccountNames] : n \in 0..MaxAccounts}

\* The loop of get_assigned_accounts from position i (0-based) on.
RECURSIVE RoundRobin(_, _, _, _)
RoundRobin(all_accounts, i, container_index, total_containers) ==
    IF i >= Len(all_accounts)
    THEN <<>>
    ELSE (IF i % total_containers = container_index
          THEN <<all_accounts[i + 1]>>
          ELSE <<>>)
         \o RoundRobin(all_accounts, i + 1, container_index, total_containers)

\* Variant: the branch without splitting is taken for every call.
GetAssignedAccountsUnsplit(all_accounts, container_index, total_containers) == all_accounts

GetAssignedAccounts(all_accounts, container_index, total_containers) ==
    IF total_containers <= 1
    THEN all_accounts
    ELSE IF container_index >= total_containers
    THEN <<>>
    ELSE RoundRobin(all_accounts, 0, container_index, total_containers)

\* Config(): the account list of EXCHANGE_PRIMARY_SMTP_ADDRESS; TOTAL_CONTAINERS of
\* the deployment (validated to be at least 1).
LoadAccounts ==
    /\ ~split.loaded
    /\ \E all_accounts \in AccountLists : \E total_containers \in 1..MaxContainers :
          split' = [loaded |-> TRUE, all_accounts |-> all_accounts,
                    total_containers |-> total_containers, called |-> {},
                    assigned |-> [k \in 1..total_containers |-> <<>>]]
    /\ UNCHANGED <<leaseVars, svcVars, workerVars, batchVars, syncVars, reapVars,
                   client, threadVars, walk>>

\* The container with CONTAINER_INDEX container_index (validated to be in
\* 0 .. TOTAL_CONTAINERS - 1) splits the account list.
CallGetAssignedAccounts ==
    /\ split.loaded
    /\ \E container_index \in (0..(split.total_containers - 1)) \ split.called :
          split' = [split EXCEPT
                      !.called = @ \cup {container_index},
                      !.assigned[container_index + 1] =
                          GetAssignedAccounts(split.all_accounts, container_index,
                                              split.total_containers)]
    /\ UNCHANGED <<leaseVars, svcVars, workerVars, batchVars, syncVars, reapVars,
                   client, threadVars, walk>>

NextSplit == LoadAccounts \/ CallGetAssignedAccounts

InitSplit == Init /\ autoResolve

SpecSplit == InitSplit /\ [][NextSplit]_vars

\* Every container of the deployment has received its list.
AllContainersAssigned ==
    split.loaded /\ split.called = 0..(split.total_containers - 1)

\* Number of positions of list s that hold account a.
Occurrences(s, a) == Cardinality({i \in 1..Len(s) : s[i] = a})

\* C40 (as stated): when every container index 0 .. total_containers-1 has
\* received its list, each account of the account list is in the list of exactly
\* one container.
C40_AccountInOneContainer ==
    AllContainersAssigned
      => \A a \in {split.all_accounts[i] : i \in 1..Len(split.all_accounts)} :
            Cardinality({k \in 1..split.total_containers :
                            Occurrences(split.assigned[k], a) > 0}) = 1

\* C40 (amended): when every container index has received its list, the lists
\* together hold each entry of the account list exactly once (an account is
\* assigned as many times as it occurs in the list), and an account that occurs
\* once in the list is in the list of exactly one container.
C40_EntriesPartitioned ==
    AllContainersAssigned
      => \A a \in AccountNames :
            LET RECURSIVE Total(_)
                Total(k) == IF k = 0 THEN 0
                            ELSE Occurrences(split.assigned[k], a) + Total(k - 1)
            IN  /\ Total(split.total_containers) = Occurrences(split.all_accounts, a)
                /\ Occurrences(split.all_accounts, a) = 1
                     => Cardinality({k \in 1..split.total_containers :
                                       Occurrences(split.assigned[k], a) > 0}) = 1

\* Two containers have split a list of three entries in which one account occurs
\* twice and the other once; each container got a part of it.
C40_Witness ==
    /\ AllContainersAssigned
    /\ split.total_containers = 2
    /\ Len(split.all_accounts) = 3
    /\ Occurrences(split.all_accounts, Account) = 2
    /\ split.assigned[1] # <<>> /\ split.assigned[2] # <<>>

====
